---- MODULE Spec2Model ----
(***************************************************************************)
(* State-machine model of the smart-agent device orchestration engine:     *)
(* the domain config repository, the runtime device table, the device      *)
(* lifecycle service (gpio_service), the automatic control service         *)
(* (power_reading_service), the heartbeat service, the provider            *)
(* subscription service and the backend delivery adapter.                  *)
(***************************************************************************)
EXTENDS Integers, Sequences, FiniteSets, TLC

(***************************************************************************)
(* Bounds of the model.                                                    *)
(***************************************************************************)
\* device_max of the domain config; device numbers 0..DeviceMax+1 are tried.
DeviceMax == 2
\* the one threshold value devices are configured with; readings range over
\* Threshold-1 .. Threshold+1.
Threshold == 2
\* how many injected environment faults (failed disk writes, failed pin
\* writes) one run may contain
MaxFaults == 1

(***************************************************************************)
(* Optional values: None is the empty tuple, a present value x is <<x>>.   *)
(***************************************************************************)
None == << >>
Some(x) == <<x>>
IsNone(o) == o = << >>
Val(o) == o[1]

DeviceNumbers == 1..DeviceMax
\* device numbers a command payload may carry (in and out of range)
PayloadNumbers == 0..(DeviceMax + 1)

\* DeviceMode enum values; "BOGUS" stands for any string that is no enum value
MANUAL == "MANUAL"
AUTO == "AUTO"
SCHEDULE == "SCHEDULE"
DeviceMode == {MANUAL, AUTO, SCHEDULE}
PayloadModes == DeviceMode \cup {"BOGUS"}

\* the backend identifiers of slot n
DeviceUuids == <<"uuid-a", "uuid-b", "uuid-c", "uuid-d">>
OwnIdentity(n) == [device_id |-> 100 + n, device_uuid |-> DeviceUuids[n]]
\* backend identifiers a payload may carry: every slot's own pair, and a pair
\* that collides with slot 1 on device_id and with slot 2 on device_uuid
Identities ==
  {OwnIdentity(n) : n \in DeviceNumbers}
    \cup {[device_id |-> OwnIdentity(1).device_id,
           device_uuid |-> OwnIdentity(2).device_uuid]}
\* the identifiers the backend sends for slot n: the slot's own pair or the
\* colliding one
PayloadIdentities(n) ==
  {i \in Identities : i.device_id = 100 + n \/ i.device_uuid = "uuid-b"}

\* provider uuids; a blank one is rejected by _normalize_provider_uuid
Providers == {"prov-a", "prov-b"}
ProviderInputs == Providers \cup {""}
\* how many subscriptions the bus may hold at once
MaxLive == 3
\* how many events are submitted to the backend adapter in one run
MaxEvents == 4

Thresholds == {None, Some(Threshold)}
\* power readings: absent, below, at and above the threshold
PowerValues == {None} \cup {Some(v) : v \in (Threshold - 1)..(Threshold + 1)}

\* DeviceEventType / DeviceTriggerReason values used by the services
ET_STATE == "STATE"
ET_ERROR == "ERROR"
ET_AUTO_TRIGGER == "AUTO_TRIGGER"
AUTO_TRIGGER == "AUTO_TRIGGER"
DEVICE_COMMAND == "DEVICE_COMMAND"
POWER_MISSING == "POWER_MISSING"
STATE_CHANGE_FAILED == "STATE_CHANGE_FAILED"
CONFIG_SYNC_FAILED == "CONFIG_SYNC_FAILED"
CONFIG_APPLY == "CONFIG_APPLY"

(***************************************************************************)
(* Hardware config: device_number -> [gpio, active_low].  Odd device       *)
(* numbers are wired active-low, even ones active-high.                    *)
(***************************************************************************)
HardwareDeviceConfig(n) == [gpio |-> 10 + n, active_low |-> (n % 2 = 1)]
HardwareFull == [n \in DeviceNumbers |-> HardwareDeviceConfig(n)]
\* a wiring table that lacks the entry of the last device number
HardwarePartial == [n \in DeviceNumbers \ {DeviceMax} |-> HardwareDeviceConfig(n)]
Gpios == {HardwareDeviceConfig(n).gpio : n \in DeviceNumbers}

VARIABLES
  hardware,   \* HardwareConfig.devices (loaded once, cached)
  cfg,        \* DomainConfigRepository._config.devices (the cached AgentConfig)
  file,       \* devices of the domain config JSON file on disk
  rt,         \* GPIOManager.devices_by_number (runtime table)
  pin,        \* raw level of every wired GPIO pin
  last,       \* outcome of the most recently executed handler step
  hp,         \* the handle_power call in flight (its locals and what it did)
  hb,         \* HeartbeatService: _running, the loop's local flag, history
  faults,     \* number of environment faults injected so far
  sub,        \* ProviderSubscriptionService: _handler, _provider_subscription,
              \* _provider_uuid
  bus,        \* live subscriptions on the message bus, per provider subject
  be,         \* BackendAdapter: the offline queue file, the quarantine file,
              \* and what the backend has accepted
  pub,        \* HeartbeatService._publish_lock and where each task that
              \* publishes heartbeats stands
  provider_uuid,  \* provider_uuid of the cached AgentConfig and of the
              \* config file on disk
  sw,         \* ProviderSubscriptionService._lock and where each task that
              \* calls switch_provider_uuid stands
  ht          \* the handler tasks of lifecycle and manual commands that
              \* overlap: scheduled, run, or publishing their acknowledgement

(***************************************************************************)
(* Runtime Device Manager                                                  *)
(***************************************************************************)
\* logical ON/OFF from the raw level and the polarity
raw_to_is_on(active_low, raw) ==
  IF active_low THEN raw = "LOW" ELSE raw = "HIGH"

\* the raw level that makes a pin of this polarity read is_on
is_on_to_raw(active_low, is_on) ==
  IF active_low THEN (IF is_on THEN "LOW" ELSE "HIGH")
  ELSE (IF is_on THEN "HIGH" ELSE "LOW")

get_by_number(table, n) ==
  IF n \in DOMAIN table THEN Some(table[n]) ELSE None

\* unknown device -> false
read_is_on_by_number(table, pins, n) ==
  IF n \in DOMAIN table
  THEN raw_to_is_on(table[n].active_low, pins[table[n].gpio])
  ELSE FALSE

\* set_state(device_number, is_on): writes the pin and updates desired_state;
\* false for an unknown device or a failed pin write (nothing changes then).
\* w is the record [cfg, file, rt, pin]; result [w, ok].
set_state_by_number(w, n, is_on, writeOk) ==
  IF n \notin DOMAIN w.rt \/ ~writeOk
  THEN [w |-> w, ok |-> FALSE]
  ELSE [w |-> [w EXCEPT
                 !.pin[w.rt[n].gpio] = is_on_to_raw(w.rt[n].active_low, is_on),
                 !.rt[n].desired_state = Some(is_on)],
        ok |-> TRUE]

\* force_all_off(reason): every managed device is attempted independently;
\* failed is the set of device numbers whose pin write fails.
force_all_off(w, failed) ==
  [w EXCEPT
     !.pin = [g \in DOMAIN w.pin |->
                IF \E n \in DOMAIN w.rt \ failed : w.rt[n].gpio = g
                THEN LET n == CHOOSE m \in DOMAIN w.rt \ failed : w.rt[m].gpio = g
                     IN is_on_to_raw(w.rt[n].active_low, FALSE)
                ELSE w.pin[g]],
     !.rt = [n \in DOMAIN w.rt |-> [w.rt[n] EXCEPT !.desired_state = Some(FALSE)]]]

\* load_devices(list): replaces the table; every listed device's pin is
\* initialised to OFF, then a MANUAL device with a desired_state is written
\* to that state.  merged is a function device_number -> RuntimeDevice.
load_devices(w, merged) ==
  [w EXCEPT
     !.rt = merged,
     !.pin = [g \in DOMAIN w.pin |->
                IF \E n \in DOMAIN merged : merged[n].gpio = g
                THEN LET d == merged[CHOOSE m \in DOMAIN merged : merged[m].gpio = g]
                     IN IF d.mode = MANUAL /\ ~IsNone(d.desired_state)
                        THEN is_on_to_raw(d.active_low, Val(d.desired_state))
                        ELSE is_on_to_raw(d.active_low, FALSE)
                ELSE w.pin[g]]]

(***************************************************************************)
(* Helpers                                                                 *)
(***************************************************************************)
RECURSIVE SortedSeq(_)
\* the members of a finite set of integers in ascending order
SortedSeq(S) ==
  IF S = {} THEN << >>
  ELSE LET m == CHOOSE x \in S : \A y \in S : x <= y
       IN <<m>> \o SortedSeq(S \ {m})

\* the record [cfg, file, rt, pin] the operators below thread through a handler
World == [cfg |-> cfg, file |-> file, rt |-> rt, pin |-> pin]

\* one call of backend_adapter.log_device_event
BackendEvent(n, event_type, trigger_reason, is_on) ==
  [device_number |-> n, event_type |-> event_type,
   trigger_reason |-> trigger_reason, is_on |-> is_on]

(***************************************************************************)
(* Domain Config Repository                                                *)
(***************************************************************************)
\* AgentConfig.validate_devices_mapping: key = device_number, device_uuid unique
validate_devices_mapping(devices) ==
  /\ \A n \in DOMAIN devices : devices[n].device_number = n
  /\ \A n, m \in DOMAIN devices :
       n # m => devices[n].device_uuid # devices[m].device_uuid

\* save(): the dumped devices, each with is_on recomputed from the runtime
\* table (or from desired_state when the device is not in the table)
saved_devices(w) ==
  [n \in DOMAIN w.cfg |->
     [device_id |-> w.cfg[n].device_id,
      device_uuid |-> w.cfg[n].device_uuid,
      device_number |-> w.cfg[n].device_number,
      mode |-> w.cfg[n].mode,
      threshold_value |-> w.cfg[n].threshold_value,
      desired_state |-> w.cfg[n].desired_state,
      is_on |-> IF n \in DOMAIN w.rt
                THEN read_is_on_by_number(w.rt, w.pin, n)
                ELSE IF w.cfg[n].mode = MANUAL
                     THEN (~IsNone(w.cfg[n].desired_state)
                           /\ Val(w.cfg[n].desired_state))
                     ELSE FALSE]]

\* _normalize_devices: what load() makes of the devices of the config file;
\* a MANUAL device gets a desired_state (from is_on, else false), every other
\* device gets none, and is_on is dropped
normalize_devices(raw) ==
  [n \in DOMAIN raw |->
     [device_id |-> raw[n].device_id,
      device_uuid |-> raw[n].device_uuid,
      device_number |-> n,
      mode |-> raw[n].mode,
      threshold_value |-> raw[n].threshold_value,
      desired_state |-> IF raw[n].mode = MANUAL
                        THEN IF IsNone(raw[n].desired_state)
                             THEN Some(raw[n].is_on)
                             ELSE raw[n].desired_state
                        ELSE None]]

repository_update_cache_only(w, devices, saveOk) ==
  IF ~validate_devices_mapping(devices)
  THEN [w |-> w, raised |-> TRUE]
  ELSE [w |-> [w EXCEPT !.cfg = devices], raised |-> ~saveOk]

\* update(**kwargs): validate, replace the cached config, then save.  A
\* validation error leaves everything as it was; a failed disk write raises
\* after the cache was replaced and leaves the file as it was.
repository_update(w, devices, saveOk) ==
  IF ~validate_devices_mapping(devices)
  THEN [w |-> w, raised |-> TRUE]
  ELSE LET w1 == [w EXCEPT !.cfg = devices]
       IN IF saveOk
          THEN [w |-> [w1 EXCEPT !.file = saved_devices(w1)], raised |-> FALSE]
          ELSE [w |-> w1, raised |-> TRUE]

(***************************************************************************)
(* Device Merge Factory                                                    *)
(***************************************************************************)
merge_raises_unique_ids_unchecked(devices, hw) ==
  \/ Cardinality(DOMAIN devices) > DeviceMax
  \/ \E n \in DOMAIN devices :
       \/ devices[n].device_number # n
       \/ n \notin DOMAIN hw

\* merge_configs raises RuntimeError: too many devices, key and device_number
\* differ, no hardware entry, or device_id / device_uuid used twice
merge_raises(devices, hw) ==
  \/ Cardinality(DOMAIN devices) > DeviceMax
  \/ \E n \in DOMAIN devices :
       \/ devices[n].device_number # n
       \/ n \notin DOMAIN hw
  \/ \E n, m \in DOMAIN devices :
       /\ n # m
       /\ \/ devices[n].device_id = devices[m].device_id
          \/ devices[n].device_uuid = devices[m].device_uuid

RuntimeDevice(d, h) ==
  [device_id |-> d.device_id,
   device_uuid |-> d.device_uuid,
   device_number |-> d.device_number,
   gpio |-> h.gpio,
   active_low |-> h.active_low,
   mode |-> d.mode,
   threshold_value |-> d.threshold_value,
   desired_state |-> d.desired_state]

\* the merged devices, keyed by device_number (defined when merge_raises is false)
merge_configs(devices, hw) ==
  [n \in DOMAIN devices |-> RuntimeDevice(devices[n], hw[n])]

(***************************************************************************)
(* Device Lifecycle Service (gpio_service)                                 *)
(***************************************************************************)
collect_runtime_states(w) ==
  [n \in DOMAIN w.rt |-> read_is_on_by_number(w.rt, w.pin, n)]

\* the devices reported after a reload, in table order: in the snapshot and
\* changed, or absent from the snapshot and ON.  Each is one backend event,
\* one device-event publish task and one heartbeat publish task.
emit_state_changes_after_reload_all_new(w, previous_states) ==
  LET current(n) == read_is_on_by_number(w.rt, w.pin, n)
      reported(n) ==
        IF n \notin DOMAIN previous_states
        THEN TRUE
        ELSE previous_states[n] # current(n)
      ns == SortedSeq({n \in DOMAIN w.rt : reported(n)})
  IN [i \in 1..Len(ns) |->
        BackendEvent(ns[i], ET_STATE, CONFIG_APPLY, current(ns[i]))]

emit_state_changes_after_reload(w, previous_states) ==
  LET current(n) == read_is_on_by_number(w.rt, w.pin, n)
      reported(n) ==
        IF n \notin DOMAIN previous_states
        THEN current(n)
        ELSE previous_states[n] # current(n)
      ns == SortedSeq({n \in DOMAIN w.rt : reported(n)})
  IN [i \in 1..Len(ns) |->
        BackendEvent(ns[i], ET_STATE, CONFIG_APPLY, current(ns[i]))]

\* merge, persist and report without handing the merged devices to the table
persist_candidate_config_table_kept(w, candidate, saveOk) ==
  IF merge_raises(candidate, hardware)
  THEN [w |-> w, raised |-> TRUE, events |-> << >>]
  ELSE LET u == repository_update(w, candidate, saveOk)
       IN IF u.raised
          THEN [w |-> u.w, raised |-> TRUE, events |-> << >>]
          ELSE [w |-> u.w, raised |-> FALSE,
                events |-> emit_state_changes_after_reload(
                             u.w, collect_runtime_states(w))]

\* merge, persist, reload, report.  raised: merge_configs or update() raised.
persist_candidate_config(w, candidate, saveOk) ==
  IF merge_raises(candidate, hardware)
  THEN [w |-> w, raised |-> TRUE, events |-> << >>]
  ELSE LET u == repository_update(w, candidate, saveOk)
       IN IF u.raised
          THEN [w |-> u.w, raised |-> TRUE, events |-> << >>]
          ELSE LET w2 == load_devices(u.w, merge_configs(candidate, hardware))
               IN [w |-> w2, raised |-> FALSE,
                   events |-> emit_state_changes_after_reload(
                                w2, collect_runtime_states(w))]

\* mode_override is None or Some(mode); result [w, ok]
sync_device_state_to_config_keep_mode(w, n, mode_override, saveOk) ==
  IF n \notin DOMAIN w.cfg
  THEN [w |-> w, ok |-> FALSE]
  ELSE LET actual_state == read_is_on_by_number(w.rt, w.pin, n)
           mode == w.cfg[n].mode
           desired == IF mode = MANUAL THEN Some(actual_state) ELSE None
           candidate == [w.cfg EXCEPT ![n].desired_state = desired]
           u == repository_update(w, candidate, saveOk)
       IN IF u.raised
          THEN [w |-> u.w, ok |-> FALSE]
          ELSE [w |-> IF n \in DOMAIN u.w.rt
                      THEN [u.w EXCEPT !.rt[n].mode = mode,
                                       !.rt[n].desired_state = desired]
                      ELSE u.w,
                ok |-> TRUE]

sync_device_state_to_config_state_kept(w, n, mode_override, saveOk) ==
  IF n \notin DOMAIN w.cfg
  THEN [w |-> w, ok |-> FALSE]
  ELSE LET actual_state == read_is_on_by_number(w.rt, w.pin, n)
           mode == IF IsNone(mode_override) THEN w.cfg[n].mode
                   ELSE Val(mode_override)
           desired == Some(actual_state)
           candidate == [w.cfg EXCEPT ![n].mode = mode,
                                      ![n].desired_state = desired]
           u == repository_update(w, candidate, saveOk)
       IN IF u.raised
          THEN [w |-> u.w, ok |-> FALSE]
          ELSE [w |-> IF n \in DOMAIN u.w.rt
                      THEN [u.w EXCEPT !.rt[n].mode = mode,
                                       !.rt[n].desired_state = desired]
                      ELSE u.w,
                ok |-> TRUE]

\* sync_device_state_to_config: the measured state becomes the desired_state
\* of a MANUAL device, any other device gets none; result [w, ok]
sync_device_state_to_config(w, n, mode_override, saveOk) ==
  IF n \notin DOMAIN w.cfg
  THEN [w |-> w, ok |-> FALSE]
  ELSE LET actual_state == read_is_on_by_number(w.rt, w.pin, n)
           mode == IF IsNone(mode_override) THEN w.cfg[n].mode
                   ELSE Val(mode_override)
           desired == IF mode = MANUAL THEN Some(actual_state) ELSE None
           candidate == [w.cfg EXCEPT ![n].mode = mode,
                                      ![n].desired_state = desired]
           u == repository_update(w, candidate, saveOk)
       IN IF u.raised
          THEN [w |-> u.w, ok |-> FALSE]
          ELSE [w |-> IF n \in DOMAIN u.w.rt
                      THEN [u.w EXCEPT !.rt[n].mode = mode,
                                       !.rt[n].desired_state = desired]
                      ELSE u.w,
                ok |-> TRUE]

is_valid_device_number(n) == 1 <= n /\ n <= DeviceMax

\* the result of a lifecycle call: the world after it, the value returned,
\* the backend events emitted, heartbeat publishes scheduled, pin writes made
Outcome(w, ok, events, hbs, writes) ==
  [w |-> w, ok |-> ok, events |-> events, hb |-> hbs, writes |-> writes]

create_device_rejects_range_only(w, p) ==
  \/ ~is_valid_device_number(p.device_number)
  \/ p.mode \notin DeviceMode

\* the checks create_device makes before it builds the candidate config:
\* number in range, room left, slot free, mode an enum value
create_device_rejects(w, p) ==
  \/ ~is_valid_device_number(p.device_number)
  \/ Cardinality(DOMAIN w.cfg) >= DeviceMax
  \/ p.device_number \in DOMAIN w.cfg
  \/ p.mode \notin DeviceMode

\* payload p: [device_number, device_id, device_uuid, mode, threshold_value, is_on]
create_device(w, p, saveOk) ==
  LET n == p.device_number IN
  IF create_device_rejects(w, p)
  THEN Outcome(w, FALSE, << >>, 0, 0)
  ELSE LET device == [device_id |-> p.device_id,
                      device_uuid |-> p.device_uuid,
                      device_number |-> n,
                      mode |-> p.mode,
                      threshold_value |-> p.threshold_value,
                      desired_state |-> IF p.mode = MANUAL THEN Some(p.is_on)
                                        ELSE None]
           candidate == [m \in DOMAIN w.cfg \cup {n} |->
                           IF m = n THEN device ELSE w.cfg[m]]
           r == persist_candidate_config(w, candidate, saveOk)
       IN Outcome(r.w, ~r.raised, r.events, Len(r.events), 0)

\* payload p: [device_number, device_id, device_uuid (None or Some),
\*             mode, threshold_set, threshold_value]
update_device(w, p, saveOk, syncSaveOk) ==
  LET n == p.device_number IN
  IF n \notin DOMAIN w.cfg \/ p.mode \notin DeviceMode
  THEN Outcome(w, FALSE, << >>, 0, 0)
  ELSE LET old == w.cfg[n]
           device == [device_id |-> p.device_id,
                      device_uuid |-> IF IsNone(p.device_uuid) THEN old.device_uuid
                                      ELSE Val(p.device_uuid),
                      device_number |-> n,
                      mode |-> p.mode,
                      threshold_value |-> IF p.threshold_set THEN p.threshold_value
                                          ELSE old.threshold_value,
                      desired_state |-> IF p.mode # MANUAL THEN None
                                        ELSE old.desired_state]
           candidate == [w.cfg EXCEPT ![n] = device]
           r == persist_candidate_config(w, candidate, saveOk)
       IN IF r.raised
          THEN Outcome(r.w, FALSE, << >>, 0, 0)
          ELSE IF p.mode # MANUAL
               THEN LET s == sync_device_state_to_config(r.w, n, None, syncSaveOk)
                    IN Outcome(s.w, s.ok, r.events, Len(r.events), 0)
               ELSE Outcome(r.w, TRUE, r.events, Len(r.events), 0)

delete_device(w, n, saveOk) ==
  IF n \notin DOMAIN w.cfg
  THEN Outcome(w, FALSE, << >>, 0, 0)
  ELSE LET candidate == [m \in DOMAIN w.cfg \ {n} |-> w.cfg[m]]
           r == persist_candidate_config(w, candidate, saveOk)
       IN Outcome(r.w, ~r.raised, r.events, Len(r.events), 0)

\* DEVICE_COMMAND: ok is "a RuntimeDevice was returned"
set_manual_state(w, n, is_on, writeOk, saveOk) ==
  IF n \notin DOMAIN w.rt
  THEN Outcome(w, FALSE, << >>, 0, 0)
  ELSE LET w1 == [w EXCEPT !.rt[n].mode = MANUAL,
                           !.rt[n].desired_state = Some(is_on)]
           current_state == read_is_on_by_number(w1.rt, w1.pin, n)
       IN IF current_state = is_on
          THEN LET s == sync_device_state_to_config(w1, n, Some(MANUAL), saveOk)
               IN IF ~s.ok
                  THEN Outcome(s.w, FALSE, << >>, 0, 0)
                  ELSE Outcome([s.w EXCEPT !.rt[n].desired_state = Some(current_state)],
                               TRUE, << >>, 0, 0)
          ELSE LET c == set_state_by_number(w1, n, is_on, writeOk)
               IN IF ~c.ok
                  THEN Outcome(c.w, FALSE, << >>, 0, 1)
                  ELSE LET s == sync_device_state_to_config(c.w, n, Some(MANUAL), saveOk)
                       IN IF ~s.ok
                          THEN Outcome(s.w, FALSE, << >>, 0, 1)
                          ELSE LET actual_state ==
                                     read_is_on_by_number(s.w.rt, s.w.pin, n)
                               IN Outcome(
                                    [s.w EXCEPT !.rt[n].desired_state = Some(actual_state)],
                                    TRUE,
                                    <<BackendEvent(n, ET_STATE, DEVICE_COMMAND, actual_state)>>,
                                    1, 1)

(***************************************************************************)
(* Automatic Control Service (power_reading_service)                       *)
(***************************************************************************)
\* _get_auto_power_devices: the AUTO devices of the table, in table order;
\* of each device object the loop reads device_number and threshold_value
get_auto_power_devices(table) ==
  LET ns == SortedSeq({n \in DOMAIN table : table[n].mode = AUTO})
  IN [i \in 1..Len(ns) |->
        [device_number |-> ns[i], threshold_value |-> table[ns[i]].threshold_value]]

\* what a handle_power call has done so far
HpAcc(events, hbs, written, failed) ==
  [events |-> events, hb |-> hbs, written |-> written, failed |-> failed]

\* _sync_state_or_log_error followed by the state-change report
hp_sync_and_report(w, n, is_on, event_type, trigger_reason, saveOk) ==
  LET s == sync_device_state_to_config(w, n, None, saveOk)
  IN [w |-> s.w,
      events |-> (IF s.ok THEN << >>
                  ELSE <<BackendEvent(n, ET_ERROR, CONFIG_SYNC_FAILED, is_on)>>)
                 \o <<BackendEvent(n, event_type, trigger_reason, is_on)>>]

should_turn_on_strict(power_value, threshold) == power_value > threshold

\* the threshold decision for a present reading
should_turn_on(power_value, threshold) == power_value >= threshold

\* a pin write failed: the error is reported and the loop goes on
hp_state_change_failed(w, n, acc) ==
  [w |-> w,
   acc |-> HpAcc(acc.events
                   \o <<BackendEvent(n, ET_ERROR, STATE_CHANGE_FAILED,
                                     read_is_on_by_number(w.rt, w.pin, n))>>,
                 acc.hb, acc.written, acc.failed \cup {n}),
   suspended |-> FALSE]

\* a state change that is persisted and reported but awaits no heartbeat
hp_state_changed_no_heartbeat(w, n, is_on, event_type, trigger_reason, acc, saveOk) ==
  LET r == hp_sync_and_report(w, n, is_on, event_type, trigger_reason, saveOk)
  IN [w |-> r.w,
      acc |-> HpAcc(acc.events \o r.events, acc.hb,
                    acc.written \cup {n}, acc.failed),
      suspended |-> TRUE]

\* a pin write succeeded: persist, report, then await the two publishes
hp_state_changed(w, n, is_on, event_type, trigger_reason, acc, saveOk) ==
  LET r == hp_sync_and_report(w, n, is_on, event_type, trigger_reason, saveOk)
  IN [w |-> r.w,
      acc |-> HpAcc(acc.events \o r.events, acc.hb + 1,
                    acc.written \cup {n}, acc.failed),
      suspended |-> TRUE]

force_off_device_skipped(w, device, acc, writeOk, saveOk) ==
  [w |-> w, acc |-> acc, suspended |-> FALSE]

\* one device of the loop over auto_devices on an absent reading
force_off_device(w, device, acc, writeOk, saveOk) ==
  LET n == device.device_number
      c == set_state_by_number(w, n, FALSE, writeOk)
  IN IF ~c.ok
     THEN hp_state_change_failed(c.w, n, acc)
     ELSE hp_state_changed(c.w, n, FALSE, ET_ERROR, POWER_MISSING, acc, saveOk)

apply_threshold_device_always_written(w, power_value, device, acc, writeOk, saveOk) ==
  LET n == device.device_number
  IN IF IsNone(device.threshold_value)
     THEN [w |-> w, acc |-> acc, suspended |-> FALSE]
     ELSE LET target == should_turn_on(power_value, Val(device.threshold_value))
              c == set_state_by_number(w, n, target, writeOk)
          IN IF ~c.ok
             THEN hp_state_change_failed(c.w, n, acc)
             ELSE hp_state_changed(c.w, n, target, ET_AUTO_TRIGGER,
                                   AUTO_TRIGGER, acc, saveOk)

apply_threshold_device_default_threshold(w, power_value, device, acc, writeOk, saveOk) ==
  LET n == device.device_number
      current_is_on == read_is_on_by_number(w.rt, w.pin, n)
      threshold == IF IsNone(device.threshold_value) THEN 0
                   ELSE Val(device.threshold_value)
      target == should_turn_on(power_value, threshold)
  IN IF current_is_on = target
     THEN [w |-> w, acc |-> acc, suspended |-> FALSE]
     ELSE LET c == set_state_by_number(w, n, target, writeOk)
          IN IF ~c.ok
             THEN hp_state_change_failed(c.w, n, acc)
             ELSE hp_state_changed(c.w, n, target, ET_AUTO_TRIGGER,
                                   AUTO_TRIGGER, acc, saveOk)

\* one device of the loop over auto_devices on a present reading
apply_threshold_device(w, power_value, device, acc, writeOk, saveOk) ==
  LET n == device.device_number
      current_is_on == read_is_on_by_number(w.rt, w.pin, n)
  IN IF IsNone(device.threshold_value)
     THEN [w |-> w, acc |-> acc, suspended |-> FALSE]
     ELSE LET target == should_turn_on(power_value, Val(device.threshold_value))
          IN IF current_is_on = target
             THEN [w |-> w, acc |-> acc, suspended |-> FALSE]
             ELSE LET c == set_state_by_number(w, n, target, writeOk)
                  IN IF ~c.ok
                     THEN hp_state_change_failed(c.w, n, acc)
                     ELSE hp_state_changed(c.w, n, target, ET_AUTO_TRIGGER,
                                           AUTO_TRIGGER, acc, saveOk)

RECURSIVE handle_power_run(_, _, _, _, _, _)
\* handle_power from one suspension point to the next: the devices of todo
\* are processed in order until one changes state (the awaited device-event
\* and heartbeat publishes follow) or the list is exhausted.  wrFail and
\* svFail are the devices whose pin write / config save fails.
handle_power_run(w, value, todo, acc, wrFail, svFail) ==
  IF todo = << >>
  THEN [w |-> w, todo |-> todo, acc |-> acc, suspended |-> FALSE]
  ELSE LET device == Head(todo)
           n == device.device_number
           r == IF IsNone(value)
                THEN force_off_device(w, device, acc, n \notin wrFail,
                                      n \notin svFail)
                ELSE apply_threshold_device(w, Val(value), device, acc,
                                            n \notin wrFail, n \notin svFail)
       IN IF r.suspended
          THEN [w |-> r.w, todo |-> Tail(todo), acc |-> r.acc, suspended |-> TRUE]
          ELSE handle_power_run(r.w, value, Tail(todo), r.acc, wrFail, svFail)

(***************************************************************************)
(* Provider Subscription Service                                           *)
(***************************************************************************)
\* the bus after a subscribe to / a successful unsubscribe from subject u
bus_subscribe(b, u) == [b EXCEPT ![u] = @ + 1]
bus_unsubscribe(b, u) == [b EXCEPT ![u] = @ - 1]
BusTotal(b) == b["prov-a"] + b["prov-b"]

\* the result of a call: the service, the bus, whether the call raised, the
\* changed field of a returned result, the subjects it tried to subscribe
ProviderOutcome(s, b, raised, changed, attempts) ==
  [sub |-> s, bus |-> b, raised |-> raised, changed |-> changed,
   attempts |-> attempts]

\* start(provider_uuid, handler): the handler is stored, then the subject
\* is subscribed; a subscription already held is not unsubscribed
provider_start(s, b, u, subOk) ==
  IF u = ""
  THEN ProviderOutcome(s, b, TRUE, FALSE, << >>)
  ELSE LET s1 == [s EXCEPT !.handler = TRUE]
       IN IF ~subOk
          THEN ProviderOutcome(s1, b, TRUE, FALSE, <<u>>)
          ELSE ProviderOutcome([s1 EXCEPT !.subscription = Some(u),
                                          !.provider_uuid = Some(u),
                                          !.lost = FALSE],
                               bus_subscribe(b, u), FALSE, FALSE, <<u>>)

\* the switch is a no-op: same uuid and a subscription is held
switch_is_noop(s, u) ==
  s.provider_uuid = Some(u) /\ ~IsNone(s.subscription)

\* the previous handle is unsubscribed; a failure is logged and ignored
unsubscribe_previous(s, b, unsubOk) ==
  IF ~IsNone(s.subscription) /\ unsubOk
  THEN bus_unsubscribe(b, Val(s.subscription))
  ELSE b

clear_subscription_kept(s) == s

\* _provider_subscription and _provider_uuid are cleared before subscribing
clear_subscription(s) ==
  [s EXCEPT !.subscription = None, !.provider_uuid = None]

rollback_subscribe_skipped(s, b, previous_provider_uuid, rollbackOk) ==
  [sub |-> [s EXCEPT !.lost = TRUE], bus |-> b, attempts |-> << >>]

\* after a failed subscribe: re-subscribe the previous subject, if any
rollback_subscribe(s, b, previous_provider_uuid, rollbackOk) ==
  IF IsNone(previous_provider_uuid)
  THEN [sub |-> [s EXCEPT !.lost = TRUE], bus |-> b, attempts |-> << >>]
  ELSE LET prev == Val(previous_provider_uuid)
       IN IF rollbackOk
          THEN [sub |-> [s EXCEPT !.subscription = Some(prev),
                                  !.provider_uuid = Some(prev),
                                  !.lost = FALSE],
                bus |-> bus_subscribe(b, prev), attempts |-> <<prev>>]
          ELSE [sub |-> [s EXCEPT !.lost = TRUE], bus |-> b,
                attempts |-> <<prev>>]

\* switch_provider_uuid(provider_uuid), under the switch lock
switch_provider_uuid(s, b, u, unsubOk, subOk, rollbackOk) ==
  IF u = "" \/ ~s.handler
  THEN ProviderOutcome(s, b, TRUE, FALSE, << >>)
  ELSE IF switch_is_noop(s, u)
  THEN ProviderOutcome(s, b, FALSE, FALSE, << >>)
  ELSE LET previous_provider_uuid == s.provider_uuid
           b1 == unsubscribe_previous(s, b, unsubOk)
           s1 == clear_subscription(s)
       IN IF subOk
          THEN ProviderOutcome([s1 EXCEPT !.subscription = Some(u),
                                          !.provider_uuid = Some(u),
                                          !.lost = FALSE],
                               bus_subscribe(b1, u), FALSE, TRUE, <<u>>)
          ELSE LET r == rollback_subscribe(s1, b1, previous_provider_uuid,
                                           rollbackOk)
               IN ProviderOutcome(r.sub, r.bus, TRUE, FALSE, <<u>> \o r.attempts)

\* stop(): a no-op without a subscription; else unsubscribe (a failure is
\* logged) and clear both fields
provider_stop(s, b, unsubOk) ==
  IF IsNone(s.subscription)
  THEN ProviderOutcome(s, b, FALSE, FALSE, << >>)
  ELSE ProviderOutcome(clear_subscription(s), unsubscribe_previous(s, b, unsubOk),
                       FALSE, FALSE, << >>)

\* switch_provider_uuid from the moment the lock is held to its first
\* await or its return: the handler check, the no-op check, and, when no
\* subscription is held, the clearing of both fields before the subscribe
switch_enter(s, u) ==
  IF ~s.handler
  THEN [sub |-> s, at |-> "raised"]
  ELSE IF switch_is_noop(s, u)
  THEN [sub |-> s, at |-> "returned"]
  ELSE IF ~IsNone(s.subscription)
  THEN [sub |-> s, at |-> "unsubscribe"]
  ELSE [sub |-> clear_subscription(s), at |-> "subscribe"]

(***************************************************************************)
(* Provider Service                                                        *)
(***************************************************************************)
\* DomainConfigRepository.update(provider_uuid=u): the cached config is
\* replaced by the merged one, then saved; a save that raises leaves the
\* file as it was
repository_update_provider_uuid(c, u, saveOk) ==
  [config |-> u, file |-> IF saveOk THEN u ELSE c.file]

\* what the bus and the disk do during one update_provider_uuid call: the
\* switch, the save, and the switch back after a failed save
UpdateEnvs ==
  [unsubOk : BOOLEAN, subOk : BOOLEAN, rollbackOk : BOOLEAN, saveOk : BOOLEAN,
   backUnsubOk : BOOLEAN, backSubOk : BOOLEAN, backRollbackOk : BOOLEAN]

\* the result of update_provider_uuid: the service, the bus, the config,
\* whether the call raised, the ok and changed fields of a returned result,
\* whether the save failed and whether the switch back raised
ProviderUpdateResult(s, b, c, raised, ok, changed, persist_failed, back_raised) ==
  [sub |-> s, bus |-> b, config |-> c, raised |-> raised, ok |-> ok,
   changed |-> changed, persist_failed |-> persist_failed,
   back_raised |-> back_raised]

\* ProviderService.update_provider_uuid(provider_uuid)
update_provider_uuid(s, b, c, u, env) ==
  IF u = ""
  THEN ProviderUpdateResult(s, b, c, TRUE, FALSE, FALSE, FALSE, FALSE)
  ELSE LET previous_provider_uuid == c.config
       IN IF u = previous_provider_uuid
          THEN ProviderUpdateResult(s, b, c, FALSE, TRUE, FALSE, FALSE, FALSE)
          ELSE LET r == switch_provider_uuid(s, b, u, env.unsubOk, env.subOk,
                                             env.rollbackOk)
               IN IF r.raised
                  THEN ProviderUpdateResult(r.sub, r.bus, c, TRUE, FALSE, FALSE,
                                            FALSE, FALSE)
                  ELSE LET c1 == repository_update_provider_uuid(c, u, env.saveOk)
                       IN IF env.saveOk
                          THEN ProviderUpdateResult(r.sub, r.bus, c1, FALSE, TRUE,
                                                    TRUE, FALSE, FALSE)
                          ELSE LET back == switch_provider_uuid(
                                             r.sub, r.bus, previous_provider_uuid,
                                             env.backUnsubOk, env.backSubOk,
                                             env.backRollbackOk)
                               IN ProviderUpdateResult(back.sub, back.bus, c1,
                                                       TRUE, FALSE, FALSE, TRUE,
                                                       back.raised)

(***************************************************************************)
(* Command handler                                                         *)
(***************************************************************************)
\* the event types parse_device_event knows
EventTypes ==
  {"DEVICE_CREATED", "DEVICE_UPDATED", "DEVICE_DELETED", "DEVICE_COMMAND",
   "CURRENT_ENERGY", "PROVIDER_UPDATED"}

\* a message on the agent's command subject: how its subject ends (.ack,
\* .command.heartbeat or anything else), whether its data is invalid JSON,
\* JSON that is no object, or an object; the ack_subject and event_type
\* fields of the object, and whether the event model accepts the object
CommandMessages ==
  [subject : {"ack", "heartbeat", "command"},
   json : {"invalid", "other", "object"},
   ack_subject : {None, Some("ack-1")},
   event_type : EventTypes \cup {"BOGUS"},
   valid : BOOLEAN]

\* what the operation behind an event type may do: return a bool (the
\* lifecycle operations, the power reading), a RuntimeDevice or None (the
\* manual command), a ProviderUpdateResult, or raise
OperationOutcomes(event_type) ==
  {[kind |-> "raised", ok |-> FALSE]} \cup
  (CASE event_type \in {"DEVICE_CREATED", "DEVICE_UPDATED", "DEVICE_DELETED"} ->
          {[kind |-> "bool", ok |-> b] : b \in BOOLEAN}
     [] event_type = "DEVICE_COMMAND" ->
          {[kind |-> "device", ok |-> TRUE], [kind |-> "none", ok |-> FALSE]}
     [] event_type = "CURRENT_ENERGY" -> {[kind |-> "bool", ok |-> TRUE]}
     [] event_type = "PROVIDER_UPDATED" ->
          {[kind |-> "provider_result", ok |-> TRUE]}
     [] OTHER -> {})

\* an execute_event that hands the failure of the operation on as a success
execute_event_swallowed(outcome) ==
  IF outcome.kind = "raised" THEN [kind |-> "bool", ok |-> TRUE] ELSE outcome

\* execute_event: the result of the operation, False when it raised
execute_event(outcome) ==
  IF outcome.kind = "raised" THEN [kind |-> "bool", ok |-> FALSE] ELSE outcome

\* the acknowledgements nats_event_handler publishes for a message whose
\* operation, if one is run, has the given outcome: the ack_subject, the ok
\* field and the helper that built the payload
nats_event_handler(msg, outcome) ==
  LET ack(ok, form) ==
        <<[ack_subject |-> Val(msg.ack_subject), ok |-> ok, form |-> form]>>
  IN IF msg.subject = "ack" THEN << >>
     ELSE IF msg.json = "invalid" THEN << >>
     ELSE IF msg.json = "other" THEN << >>
     ELSE IF msg.subject = "heartbeat" THEN << >>
     ELSE IF IsNone(msg.ack_subject) THEN << >>
     ELSE IF msg.event_type \notin EventTypes THEN ack(FALSE, "send_ack")
     ELSE IF ~msg.valid THEN ack(FALSE, "send_ack")
     ELSE LET result == execute_event(outcome)
          IN CASE msg.event_type = "PROVIDER_UPDATED" ->
                    ack(IF result.kind = "provider_result" THEN result.ok
                        ELSE result.kind = "device" \/ result.ok,
                        "send_provider_update_ack")
               [] msg.event_type = "DEVICE_COMMAND" ->
                    ack(result.kind = "device", "send_event_ack")
               [] OTHER ->
                    ack(result.kind \in {"device", "provider_result"} \/ result.ok,
                        "send_ack")

(***************************************************************************)
(* Backend Adapter                                                         *)
(***************************************************************************)
\* a line of the offline queue file: the JSON of an event payload, a line
\* that is not JSON, JSON without event_name / event_type, or a line of
\* white space only
EventLine(id, device_uuid, device_number) ==
  [kind |-> "event", id |-> id, device_uuid |-> device_uuid,
   device_number |-> device_number]
MalformedLine == [kind |-> "malformed", id |-> 0, device_uuid |-> None,
                  device_number |-> 0]
IncompleteLine == [kind |-> "incomplete", id |-> 0, device_uuid |-> None,
                   device_number |-> 0]
BlankLine == [kind |-> "blank", id |-> 0, device_uuid |-> None,
              device_number |-> 0]

enqueue_first(queue, payload) == <<payload>> \o queue
enqueue_dropped(queue, payload) == queue

\* _enqueue: the payload is appended to the queue file
enqueue(queue, payload) == Append(queue, payload)

\* _enrich_identifiers_from_runtime: a payload without device_uuid takes the
\* one of the runtime device with its device_number, if there is one
enrich_identifiers_from_runtime(table, payload) ==
  IF ~IsNone(payload.device_uuid) \/ payload.device_number \notin DOMAIN table
  THEN payload
  ELSE [payload EXCEPT !.device_uuid = Some(table[payload.device_number].device_uuid)]

\* a _prepare_request that never raises
missing_device_uuid_never(table, payload) == FALSE

\* _prepare_request raises MissingDeviceUUIDError
missing_device_uuid(table, payload) ==
  IsNone(enrich_identifiers_from_runtime(table, payload).device_uuid)

looks_like_valid_event_payload_any(line) == TRUE
\* _looks_like_valid_event_payload: a JSON object with event_name and
\* event_type
looks_like_valid_event_payload(line) == line.kind = "event"

\* _post_payload followed by raise_for_status: "missing" (no request is
\* made), "ok" or "failed"
post_payload(table, payload, postOk) ==
  IF missing_device_uuid(table, payload) THEN "missing"
  ELSE IF postOk THEN "ok" ELSE "failed"

RECURSIVE flush_lines(_, _, _, _, _)
\* the loop of _flush_queue over the lines from index i on; postOk[i] is
\* the backend's answer to the POST of line i.  acc holds the remaining
\* lines, the quarantined ones, the delivered ids and the POSTs made.
flush_lines(table, lines, i, postOk, acc) ==
  IF i > Len(lines) THEN acc
  ELSE LET line == lines[i] IN
       IF line.kind = "blank"
       THEN flush_lines(table, lines, i + 1, postOk, acc)
       ELSE IF line.kind = "malformed" \/ ~looks_like_valid_event_payload(line)
       THEN flush_lines(table, lines, i + 1, postOk,
                        [acc EXCEPT !.quarantine = Append(@, line)])
       ELSE LET sent == post_payload(table, line, postOk[i])
                acc1 == IF sent = "missing" THEN acc
                        ELSE [acc EXCEPT !.posts = Append(@, line.id)]
            IN flush_lines(table, lines, i + 1, postOk,
                           IF sent = "ok"
                           THEN [acc1 EXCEPT !.delivered = Append(@, line.id)]
                           ELSE [acc1 EXCEPT !.remaining = Append(@, line)])

\* _flush_queue: the file is rewritten with the remaining lines
flush_queue(table, b, postOk) ==
  LET r == flush_lines(table, b.queue, 1, postOk,
                       [remaining |-> << >>, quarantine |-> b.quarantine,
                        delivered |-> b.delivered, posts |-> << >>])
  IN [b |-> [b EXCEPT !.queue = r.remaining, !.quarantine = r.quarantine,
                      !.delivered = r.delivered],
      posts |-> r.posts]

\* log_device_event of an enabled adapter: flush, then POST the new
\* payload; whatever goes wrong, the new payload is appended to the queue.
\* postOk has one entry per queued line and a last one for the new payload.
log_device_event(table, b, device_uuid, device_number, postOk) ==
  LET payload == EventLine(b.submitted + 1, device_uuid, device_number)
      f == flush_queue(table, [b EXCEPT !.submitted = @ + 1], postOk)
      sent == post_payload(table, payload, postOk[Len(b.queue) + 1])
      posts == IF sent = "missing" THEN f.posts ELSE Append(f.posts, payload.id)
  IN IF sent = "ok"
     THEN [b |-> [f.b EXCEPT !.delivered = Append(@, payload.id)], posts |-> posts]
     ELSE [b |-> [f.b EXCEPT !.queue = enqueue(@, payload)], posts |-> posts]

(***************************************************************************)
(* State                                                                   *)
(***************************************************************************)
(***************************************************************************)
(* Heartbeat Service: the publish lock                                     *)
(***************************************************************************)
\* how many tasks may be inside publish_now at once, beside the _loop task
MaxCallers == 2
Callers == 1..MaxCallers
\* the task running _loop, numbered before the callers
LoopTask == 0
Publishers == Callers \cup {LoopTask}

\* _publish_lock unlocked without waiters; no task is publishing.  waiters
\* is the lock's FIFO queue, woken says its first waiter has been woken by
\* a release and has not run yet; pc[t] is idle, waiting or publishing
PubIdle ==
  [locked |-> FALSE, waiters |-> << >>, woken |-> FALSE,
   pc |-> [t \in Publishers |-> "idle"]]

\* a task that enters the block whatever the state of the lock
lock_acquire_unguarded(p, t) ==
  [p EXCEPT !.locked = TRUE, !.pc[t] = "publishing"]

\* async with self._publish_lock, entered by task t: the lock is taken at
\* once when it is free and nobody waits, else t joins the queue
lock_acquire(p, t) ==
  IF ~p.locked /\ p.waiters = << >>
  THEN [p EXCEPT !.locked = TRUE, !.pc[t] = "publishing"]
  ELSE [p EXCEPT !.waiters = Append(@, t), !.pc[t] = "waiting"]

\* the block is left, normally or by an exception: the lock is released
\* and its first waiter woken
lock_release(p) ==
  [p EXCEPT !.locked = FALSE, !.woken = (p.waiters # << >>)]

\* a woken waiter that enters the block and leaves the lock unlocked
lock_granted_unlocked(p) ==
  [p EXCEPT !.waiters = Tail(@), !.woken = FALSE,
            !.pc[Head(p.waiters)] = "publishing"]

\* the woken waiter runs: it leaves the queue holding the lock
lock_granted(p) ==
  [p EXCEPT !.waiters = Tail(@), !.woken = FALSE, !.locked = TRUE,
            !.pc[Head(p.waiters)] = "publishing"]

\* a stop() that clears _running and leaves the _loop task as it is
loop_cancelled_flag_only(p) == p

\* stop() cancels the _loop task: inside the block the lock is released;
\* in the queue the task leaves it and passes a wake-up on
loop_cancelled(p) ==
  IF p.pc[LoopTask] = "publishing"
  THEN [lock_release(p) EXCEPT !.pc[LoopTask] = "idle"]
  ELSE IF p.pc[LoopTask] = "waiting"
       THEN LET rest == SelectSeq(p.waiters, LAMBDA t : t # LoopTask)
            IN [p EXCEPT !.waiters = rest,
                         !.pc[LoopTask] = "idle",
                         !.woken = IF Head(p.waiters) = LoopTask /\ p.woken
                                   THEN rest # << >>
                                   ELSE p.woken]
       ELSE p

\* publish_now: True when the publish returned, False when it raised
publish_now_result(raised) == ~raised

(***************************************************************************)
(* Provider Subscription Service: the switch lock                          *)
(***************************************************************************)
\* how many tasks may be inside switch_provider_uuid at once
MaxSwitchers == 2
Switchers == 1..MaxSwitchers
\* a task that is not inside switch_provider_uuid
NoSwitch == [at |-> "none"]
\* _lock unlocked without waiters; locked, waiters, woken and pc are those
\* of an asyncio.Lock as for the publish lock (pc[t] is publishing while t
\* is inside the block); loc[t] holds the locals of the call of task t;
\* committed is the provider uuid that the last completed start or switch
\* left in the service
SwIdle ==
  [locked |-> FALSE, waiters |-> << >>, woken |-> FALSE,
   pc |-> [t \in Switchers |-> "idle"],
   loc |-> [t \in Switchers |-> NoSwitch],
   committed |-> None]

(***************************************************************************)
(* Command handler tasks                                                   *)
(***************************************************************************)
\* how many command handler tasks may exist at once
MaxHandlers == 2
Handlers == 1..MaxHandlers
\* no command is being handled
HtIdle == [t \in Handlers |-> [pc |-> "idle"]]

\* an operation that works on the config found when its task was created
loaded_config_stale(seen, now) == seen

\* domain_config_repository.load() at the start of an operation: the config
\* cached when the operation runs (now), not the one cached when the task
\* of the handler was created (seen)
loaded_config(seen, now) == now

vars == <<hardware, cfg, file, rt, pin, last, hp, hb, faults, sub, bus, be, pub,
         provider_uuid, sw, ht>>

NoLast == [op |-> "none"]
HpIdle == [pc |-> "idle"]

\* the device entries a config file may hold for slot n when the agent
\* starts: written by save() while the outputs were in their boot state
FileEntries(n) ==
  LET own == OwnIdentity(n)
      entry(mode, threshold, desired, is_on) ==
        [device_id |-> own.device_id, device_uuid |-> own.device_uuid,
         device_number |-> n, mode |-> mode, threshold_value |-> threshold,
         desired_state |-> desired, is_on |-> is_on]
  IN {entry(AUTO, t, None, FALSE) : t \in Thresholds}
       \cup {entry(SCHEDULE, None, None, FALSE)}
       \cup {entry(MANUAL, None, Some(x), x) : x \in BOOLEAN}
ConfigFiles ==
  UNION {[S -> UNION {FileEntries(n) : n \in S}] : S \in SUBSET DeviceNumbers}
\* every pin at the level that leaves its output off
PinsOff ==
  [g \in Gpios |->
     LET h == CHOOSE x \in {HardwareFull[n] : n \in DeviceNumbers} : x.gpio = g
     IN is_on_to_raw(h.active_low, FALSE)]

\* main.bootstrap_gpio: the config file is loaded, merged with the hardware
\* config and handed to load_devices; no service is running yet
InitTable ==
  /\ hardware \in {HardwareFull, HardwarePartial}
  /\ file \in {f \in ConfigFiles : \A n \in DOMAIN f : f[n].device_number = n}
  /\ cfg = normalize_devices(file)
  /\ ~merge_raises(cfg, hardware)
  /\ LET w == load_devices([cfg |-> cfg, file |-> file, rt |-> << >>,
                            pin |-> PinsOff],
                           merge_configs(cfg, hardware))
     IN rt = w.rt /\ pin = w.pin
  /\ last = NoLast
  /\ hp = HpIdle
  /\ hb = [running |-> FALSE, tasks |-> 0, triggered |-> FALSE,
           prev |-> "none", loop_prev |-> "none"]
  /\ pub = PubIdle
  /\ provider_uuid = [config |-> "prov-a", file |-> "prov-a"]
  /\ sw = SwIdle
  /\ ht = HtIdle

\* the bootstrapped agent in an environment that may still inject faults
InitDevices ==
  /\ InitTable
  /\ faults = 0

\* ProviderSubscriptionService.__init__, and a bus without subscriptions;
\* lost records that the last switch left the service without subscription
InitProvider ==
  /\ sub = [handler |-> FALSE, subscription |-> None, provider_uuid |-> None,
            lost |-> FALSE]
  /\ bus = [u \in Providers |-> 0]

\* a backend adapter whose offline queue file holds the lines of q
NewBackend(q) ==
  [queue |-> q, quarantine |-> << >>, delivered |-> << >>, submitted |-> 0]

Init ==
  /\ InitDevices
  /\ InitProvider
  /\ be = NewBackend(<< >>)

\* where the environment may make a handler with k disk or pin writes fail:
\* nowhere (0) or at its i-th write, while the fault budget lasts
FaultPoints(k) == IF faults < MaxFaults THEN 0..k ELSE {0}
\* the sets of devices whose write may fail within the fault budget
FailingSets(S) == {F \in SUBSET S : faults + Cardinality(F) <= MaxFaults}
Inject(k) ==
  /\ faults + k <= MaxFaults
  /\ faults' = faults + k

\* device numbers of a payload that names an existing slot or none
KnownOrNot == DeviceNumbers \cup {DeviceMax + 1}
\* the mode, threshold_value and is_on fields of a creation payload; the
\* code reads is_on for MANUAL only, and nothing after an invalid mode; a
\* threshold is sent for AUTO devices
CreateFields ==
  {[mode |-> m, threshold_value |-> t, is_on |-> x] :
     m \in DeviceMode, t \in Thresholds, x \in BOOLEAN}
    \cup {[mode |-> "BOGUS", threshold_value |-> None, is_on |-> FALSE]}
\* creation payloads for slot n: a request the number checks reject is
\* represented by one payload, since no other field is read
CreatePayloads(n) ==
  LET full == {[device_number |-> n, device_id |-> i.device_id,
                device_uuid |-> i.device_uuid, mode |-> f.mode,
                threshold_value |-> f.threshold_value, is_on |-> f.is_on] :
                 i \in PayloadIdentities(n),
                 f \in {g \in CreateFields :
                          /\ g.mode = MANUAL \/ ~g.is_on
                          /\ g.mode = AUTO \/ g.threshold_value = None}}
  IN IF n \in DeviceNumbers \ DOMAIN cfg
     THEN full
     ELSE {CHOOSE q \in full : q.mode = AUTO /\ q.threshold_value # None}
\* the threshold_value field of an update payload: absent, null or a number
ThresholdFields ==
  {[set |-> FALSE, value |-> None]}
    \cup {[set |-> TRUE, value |-> t] : t \in Thresholds}
\* update payloads for slot n: device_uuid is optional, a threshold is sent
\* for AUTO devices; an update of an unknown device is represented by one
\* payload
UpdatePayloads(n) ==
  LET idents == {[device_id |-> i.device_id, device_uuid |-> Some(i.device_uuid)] :
                   i \in PayloadIdentities(n)}
                \cup {[device_id |-> 100 + n, device_uuid |-> None]}
      modes == {f \in {[mode |-> m, th |-> t] :
                          m \in DeviceMode, t \in ThresholdFields} :
                  f.mode = AUTO \/ ~f.th.set}
                \cup {[mode |-> "BOGUS", th |-> [set |-> FALSE, value |-> None]]}
      full == {[device_number |-> n, device_id |-> i.device_id,
                device_uuid |-> i.device_uuid, mode |-> f.mode,
                threshold_set |-> f.th.set, threshold_value |-> f.th.value] :
                 i \in idents, f \in modes}
  IN IF n \in DOMAIN cfg
     THEN full
     ELSE {CHOOSE q \in full : q.mode = AUTO /\ q.threshold_set
                                /\ q.threshold_value # None}

SetWorld(w) ==
  /\ cfg' = w.cfg
  /\ file' = w.file
  /\ rt' = w.rt
  /\ pin' = w.pin

\* a handler is entered when the result of the previous one has been taken
\* by its caller; a handle_power call may be suspended meanwhile
Dispatching == last = NoLast /\ hp.pc \in {"idle", "await"}

\* another handler ran at a suspension point of the handle_power in flight
HpDisturbed ==
  IF hp.pc = "await" THEN [hp EXCEPT !.interleaved = TRUE] ELSE hp

\* a lifecycle call with payload p returned outcome r; fault tells which of
\* its disk writes failed (0: none), before is the state it started from
Returned(op, p, fault, r) ==
  /\ Dispatching
  /\ SetWorld(r.w)
  /\ last' = [op |-> op, n |-> p.device_number, p |-> p, ok |-> r.ok,
              events |-> r.events, hb |-> r.hb, writes |-> r.writes,
              fault |-> fault, before |-> World]
  /\ hp' = HpDisturbed
  /\ UNCHANGED <<hardware, hb, sub, bus, be, pub, provider_uuid, sw, ht>>

(***************************************************************************)
(* Heartbeat Service: the periodic loop                                    *)
(***************************************************************************)
heartbeat_loop_iteration_flag_kept(w, h, publishOk, failed) ==
  IF publishOk
  THEN [w |-> w, swept |-> FALSE,
        hb |-> [h EXCEPT !.prev = "ok", !.loop_prev = "ok"]]
  ELSE IF ~h.triggered
       THEN [w |-> force_all_off(w, failed), swept |-> TRUE,
             hb |-> [h EXCEPT !.triggered = TRUE, !.prev = "failed",
                              !.loop_prev = "failed"]]
       ELSE [w |-> w, swept |-> FALSE,
             hb |-> [h EXCEPT !.prev = "failed", !.loop_prev = "failed"]]

\* an iteration whose sweep stops at the first device whose pin write fails
heartbeat_loop_iteration_sweep_aborted(w, h, publishOk, failed) ==
  IF publishOk
  THEN [w |-> w, swept |-> FALSE,
        hb |-> [h EXCEPT !.triggered = FALSE, !.prev = "ok", !.loop_prev = "ok"]]
  ELSE IF ~h.triggered
       THEN LET reached == {n \in DOMAIN w.rt : \A m \in failed : n < m}
                swept == force_all_off(w, DOMAIN w.rt \ reached)
            IN [w |-> [swept EXCEPT
                         !.rt = [n \in DOMAIN w.rt |->
                                   IF n \in reached THEN swept.rt[n] ELSE w.rt[n]]],
                swept |-> TRUE,
                hb |-> [h EXCEPT !.triggered = TRUE, !.prev = "failed",
                                 !.loop_prev = "failed"]]
       ELSE [w |-> w, swept |-> FALSE,
             hb |-> [h EXCEPT !.prev = "failed", !.loop_prev = "failed"]]

\* one iteration of _loop: the publish succeeded or raised; on the first
\* failure since the flag was cleared, force_all_off.  h is the hb record,
\* failed the devices whose pin write fails in the sweep.
heartbeat_loop_iteration(w, h, publishOk, failed) ==
  IF publishOk
  THEN [w |-> w, swept |-> FALSE,
        hb |-> [h EXCEPT !.triggered = FALSE, !.prev = "ok", !.loop_prev = "ok"]]
  ELSE IF ~h.triggered
       THEN [w |-> force_all_off(w, failed), swept |-> TRUE,
             hb |-> [h EXCEPT !.triggered = TRUE, !.prev = "failed",
                              !.loop_prev = "failed"]]
       ELSE [w |-> w, swept |-> FALSE,
             hb |-> [h EXCEPT !.prev = "failed", !.loop_prev = "failed"]]

\* start(): a no-op when running; else a new _loop task with a fresh flag.
\* tasks counts the _loop tasks created and not cancelled
heartbeat_start(h) ==
  IF h.running THEN h
  ELSE [h EXCEPT !.running = TRUE, !.tasks = @ + 1, !.triggered = FALSE,
                 !.loop_prev = "none"]

\* stop(): a no-op when not running; else the loop task is cancelled
heartbeat_stop(h) ==
  IF ~h.running THEN h
  ELSE [h EXCEPT !.running = FALSE, !.tasks = IF @ > 0 THEN @ - 1 ELSE 0]

(***************************************************************************)
(* Actions: one per handler or task step                                   *)
(***************************************************************************)
CreateDevice ==
  \E n \in PayloadNumbers, fault \in FaultPoints(1) :
    \E p \in CreatePayloads(n) :
      /\ Returned("create", p, fault, create_device(World, p, fault # 1))
      /\ Inject(IF fault = 0 THEN 0 ELSE 1)

UpdateDevice ==
  \E n \in KnownOrNot, fault \in FaultPoints(2) :
    \E p \in UpdatePayloads(n) :
      /\ Returned("update", p, fault,
                  update_device(World, p, fault # 1, fault # 2))
      /\ Inject(IF fault = 0 THEN 0 ELSE 1)

DeleteDevice ==
  \E n \in KnownOrNot, fault \in FaultPoints(1) :
    /\ Returned("delete", [device_number |-> n], fault,
                delete_device(World, n, fault # 1))
    /\ Inject(IF fault = 0 THEN 0 ELSE 1)

SetManualState ==
  \E n \in KnownOrNot, is_on \in BOOLEAN, fault \in FaultPoints(2) :
    /\ Dispatching
    /\ LET r == set_manual_state(World, n, is_on, fault # 1, fault # 2)
       IN /\ SetWorld(r.w)
          /\ last' = [op |-> "command", n |-> n, is_on |-> is_on, ok |-> r.ok,
                      events |-> r.events, hb |-> r.hb, writes |-> r.writes,
                      was_on |-> read_is_on_by_number(rt, pin, n),
                      writeOk |-> fault # 1, saveOk |-> fault # 2,
                      before |-> World]
    /\ hp' = HpDisturbed
    /\ Inject(IF fault = 0 THEN 0 ELSE 1)
    /\ UNCHANGED <<hardware, hb, sub, bus, be, pub, provider_uuid, sw, ht>>

\* the call runs from its entry to its first suspension point (or returns)
HandlePowerStart ==
  \E value \in PowerValues, wrFail \in FailingSets(DOMAIN rt),
     svFail \in FailingSets(DOMAIN rt) :
    /\ Dispatching
    /\ hp.pc = "idle"
    /\ LET r == handle_power_run(World, value, get_auto_power_devices(rt),
                                 HpAcc(<< >>, 0, {}, {}), wrFail, svFail)
       IN /\ SetWorld(r.w)
          /\ hp' = [pc |-> IF r.suspended THEN "await" ELSE "done",
                    value |-> value, todo |-> r.todo, acc |-> r.acc,
                    on_before |-> {n \in DOMAIN rt :
                                     read_is_on_by_number(rt, pin, n)},
                    interleaved |-> FALSE]
    /\ last' = NoLast
    /\ Inject(Cardinality(wrFail) + Cardinality(svFail))
    /\ UNCHANGED <<hardware, hb, sub, bus, be, pub, provider_uuid, sw, ht>>

\* the awaited publishes returned: the loop goes on to the next device
HandlePowerResume ==
  \E wrFail \in FailingSets(DOMAIN rt), svFail \in FailingSets(DOMAIN rt) :
    /\ Dispatching
    /\ hp.pc = "await"
    /\ LET r == handle_power_run(World, hp.value, hp.todo, hp.acc, wrFail, svFail)
       IN /\ SetWorld(r.w)
          /\ hp' = [hp EXCEPT !.pc = IF r.suspended THEN "await" ELSE "done",
                              !.todo = r.todo, !.acc = r.acc]
    /\ last' = NoLast
    /\ Inject(Cardinality(wrFail) + Cardinality(svFail))
    /\ UNCHANGED <<hardware, hb, sub, bus, be, pub, provider_uuid, sw, ht>>

HeartbeatStart ==
  /\ Dispatching
  /\ hb' = heartbeat_start(hb)
  /\ last' = NoLast
  /\ hp' = HpDisturbed
  /\ UNCHANGED <<hardware, cfg, file, rt, pin, faults, sub, bus, be, pub,
               provider_uuid, sw, ht>>

HeartbeatStop ==
  /\ Dispatching
  /\ hb' = heartbeat_stop(hb)
  /\ pub' = loop_cancelled(pub)
  /\ last' = NoLast
  /\ hp' = HpDisturbed
  /\ UNCHANGED <<hardware, cfg, file, rt, pin, faults, sub, bus, be,
               provider_uuid, sw, ht>>

HeartbeatLoop ==
  \E publishOk \in BOOLEAN, failed \in FailingSets(DOMAIN rt) :
    /\ Dispatching
    /\ hb.running
    /\ LET r == heartbeat_loop_iteration(World, hb, publishOk, failed)
       IN /\ SetWorld(r.w)
          /\ hb' = r.hb
          /\ last' = [op |-> "loop", ok |-> publishOk, swept |-> r.swept,
                      failed |-> IF r.swept THEN failed ELSE {},
                      prev |-> hb.prev, loop_prev |-> hb.loop_prev]
    /\ hp' = HpDisturbed
    /\ Inject(Cardinality(failed))
    /\ UNCHANGED <<hardware, sub, bus, be, pub, provider_uuid, sw, ht>>

\* a task calls publish_now: the config is read, then the lock requested
PublishNow ==
  \E c \in Callers :
    /\ pub.pc[c] = "idle"
    /\ pub' = lock_acquire(pub, c)
    /\ UNCHANGED <<hardware, cfg, file, rt, pin, last, hp, hb, faults, sub, bus, be,
                 provider_uuid, sw, ht>>

\* _loop begins an iteration: it requests the lock
LoopAcquire ==
  /\ hb.running
  /\ pub.pc[LoopTask] = "idle"
  /\ pub' = lock_acquire(pub, LoopTask)
  /\ UNCHANGED <<hardware, cfg, file, rt, pin, last, hp, hb, faults, sub, bus, be,
               provider_uuid, sw, ht>>

\* the event loop runs the waiter that a release woke
LockGranted ==
  /\ pub.woken
  /\ pub' = lock_granted(pub)
  /\ UNCHANGED <<hardware, cfg, file, rt, pin, last, hp, hb, faults, sub, bus, be,
               provider_uuid, sw, ht>>

\* the bus publish of a publish_now call returned or raised: the lock is
\* released and the call returns its result
PublishNowReturns ==
  \E c \in Callers, raised \in BOOLEAN :
    /\ pub.pc[c] = "publishing"
    /\ pub' = [lock_release(pub) EXCEPT !.pc[c] = "idle"]
    /\ last' = [op |-> "publish_now", caller |-> c, raised |-> raised,
                result |-> publish_now_result(raised)]
    /\ UNCHANGED <<hardware, cfg, file, rt, pin, hp, hb, faults, sub, bus, be,
                 provider_uuid, sw, ht>>

\* the bus publish of the _loop iteration returned or raised: the lock is
\* released, the iteration is finished and the task sleeps
LoopPublishReturns ==
  \E publishOk \in BOOLEAN, failed \in FailingSets(DOMAIN rt) :
    /\ pub.pc[LoopTask] = "publishing"
    /\ pub' = [lock_release(pub) EXCEPT !.pc[LoopTask] = "idle"]
    /\ LET r == heartbeat_loop_iteration(World, hb, publishOk, failed)
       IN /\ SetWorld(r.w)
          /\ hb' = r.hb
          /\ last' = [op |-> "loop", ok |-> publishOk, swept |-> r.swept,
                      failed |-> IF r.swept THEN failed ELSE {},
                      prev |-> hb.prev, loop_prev |-> hb.loop_prev]
    /\ hp' = HpDisturbed
    /\ Inject(Cardinality(failed))
    /\ UNCHANGED <<hardware, sub, bus, be, provider_uuid, sw, ht>>

\* the caller takes the result of the handler that returned (the command
\* handler builds its acknowledgement from it; a completed handle_power
\* returns to the subscription callback)
HandlerReturns ==
  /\ last # NoLast \/ hp.pc = "done"
  /\ last' = NoLast
  /\ hp' = IF hp.pc = "done" THEN HpIdle ELSE hp
  /\ UNCHANGED <<hardware, cfg, file, rt, pin, hb, faults, sub, bus, be, pub,
               provider_uuid, sw, ht>>

\* the lifecycle commands, the manual command and the power readings
Next ==
  \/ CreateDevice
  \/ UpdateDevice
  \/ DeleteDevice
  \/ SetManualState
  \/ HandlePowerStart
  \/ HandlePowerResume
  \/ HandlerReturns

Spec == Init /\ [][Next]_vars

\* the bootstrapped agent in an environment whose disk and pin writes all
\* succeed
InitReliable ==
  /\ InitTable
  /\ faults = MaxFaults
  /\ InitProvider
  /\ be = NewBackend(<< >>)

\* every lifecycle command, manual command and power reading, interleaved,
\* without environment faults
SpecReliable == InitReliable /\ [][Next]_vars

\* device control on a bootstrapped agent: manual commands and power readings
NextControl ==
  \/ SetManualState
  \/ HandlePowerStart
  \/ HandlePowerResume
  \/ HandlerReturns

SpecControl == Init /\ [][NextControl]_vars

\* the device lifecycle: definitions created, updated and deleted, and
\* manual commands
NextLifecycle ==
  \/ CreateDevice
  \/ UpdateDevice
  \/ DeleteDevice
  \/ SetManualState
  \/ HandlerReturns

SpecLifecycle == Init /\ [][NextLifecycle]_vars

\* the heartbeat loop beside the manual commands
NextHeartbeat ==
  \/ SetManualState
  \/ HeartbeatStart
  \/ HeartbeatStop
  \/ HeartbeatLoop
  \/ HandlerReturns

SpecHeartbeat == Init /\ [][NextHeartbeat]_vars

\* the heartbeat loop beside the power readings
NextOutage ==
  \/ HandlePowerStart
  \/ HandlePowerResume
  \/ HeartbeatStart
  \/ HeartbeatStop
  \/ HeartbeatLoop
  \/ HandlerReturns

SpecOutage == Init /\ [][NextOutage]_vars

\* an agent bootstrapped without devices: devices are created, then power
\* readings arrive
InitEndToEnd == Init /\ file = << >>

NextEndToEnd ==
  \/ CreateDevice
  \/ HandlePowerStart
  \/ HandlePowerResume
  \/ HandlerReturns

SpecEndToEnd == InitEndToEnd /\ [][NextEndToEnd]_vars

\* the periodic loop beside concurrent publish_now calls
NextPublish ==
  \/ HeartbeatStart
  \/ HeartbeatStop
  \/ PublishNow
  \/ LoopAcquire
  \/ LockGranted
  \/ PublishNowReturns
  \/ LoopPublishReturns
  \/ HandlerReturns

SpecPublish == Init /\ [][NextPublish]_vars

\* the event loop runs every task it has woken, and every bus publish
\* returns or raises
SpecPublishFair ==
  /\ SpecPublish
  /\ WF_vars(LockGranted)
  /\ WF_vars(PublishNowReturns)
  /\ WF_vars(LoopPublishReturns)

\* a call of the provider subscription service returned r
ProviderReturned(op, u, r, env) ==
  /\ last = NoLast
  /\ BusTotal(r.bus) <= MaxLive
  /\ sub' = r.sub
  /\ bus' = r.bus
  /\ last' = [op |-> op, provider_uuid |-> u, raised |-> r.raised,
              changed |-> r.changed, attempts |-> r.attempts,
              before |-> sub, env |-> env]
  /\ UNCHANGED <<hardware, cfg, file, rt, pin, hp, hb, faults, be, pub,
               provider_uuid, sw, ht>>

ProviderStart ==
  \E u \in ProviderInputs, subOk \in BOOLEAN :
    ProviderReturned("start", u, provider_start(sub, bus, u, subOk),
                     [unsubOk |-> TRUE, subOk |-> subOk, rollbackOk |-> TRUE])

ProviderSwitch ==
  \E u \in ProviderInputs, unsubOk \in BOOLEAN, subOk \in BOOLEAN,
     rollbackOk \in BOOLEAN :
    ProviderReturned("switch", u,
                     switch_provider_uuid(sub, bus, u, unsubOk, subOk, rollbackOk),
                     [unsubOk |-> unsubOk, subOk |-> subOk,
                      rollbackOk |-> rollbackOk])

ProviderStop ==
  \E unsubOk \in BOOLEAN :
    ProviderReturned("stop", "", provider_stop(sub, bus, unsubOk),
                     [unsubOk |-> unsubOk, subOk |-> TRUE, rollbackOk |-> TRUE])

\* the provider subscription service on its own
NextProvider ==
  \/ ProviderStart
  \/ ProviderSwitch
  \/ ProviderStop
  \/ HandlerReturns

SpecProvider == Init /\ [][NextProvider]_vars

\* main.setup_nats: the provider subject of the configured provider_uuid is
\* subscribed; a start() that raises ends the process
SetupNats ==
  /\ last = NoLast
  /\ ~sub.handler
  /\ LET r == provider_start(sub, bus, provider_uuid.config, TRUE)
     IN /\ sub' = r.sub
        /\ bus' = r.bus
        /\ sw' = [sw EXCEPT !.committed = r.sub.provider_uuid]
  /\ UNCHANGED <<hardware, cfg, file, rt, pin, last, hp, hb, faults, be, pub,
                 provider_uuid, ht>>

\* a PROVIDER_UPDATED command is handled: update_provider_uuid returned r
ProviderUpdate ==
  \E u \in ProviderInputs, env \in UpdateEnvs :
    LET r == update_provider_uuid(sub, bus, provider_uuid, u, env)
    IN /\ last = NoLast
       /\ sub.handler
       /\ BusTotal(r.bus) <= MaxLive
       /\ sub' = r.sub
       /\ bus' = r.bus
       /\ provider_uuid' = r.config
       /\ last' = [op |-> "update_provider_uuid", provider_uuid |-> u,
                   raised |-> r.raised, ok |-> r.ok, changed |-> r.changed,
                   persist_failed |-> r.persist_failed,
                   back_raised |-> r.back_raised,
                   before |-> [sub |-> sub, config |-> provider_uuid]]
       /\ UNCHANGED <<hardware, cfg, file, rt, pin, hp, hb, faults, be, pub, sw, ht>>

\* the provider service, from the start of the agent
NextProviderConfig ==
  \/ SetupNats
  \/ ProviderUpdate
  \/ HandlerReturns

SpecProviderConfig == Init /\ [][NextProviderConfig]_vars

\* the call of task t leaves the block, by a return or by an exception: the
\* lock is released and the caller gets the result
SwitchDone(t, p, s, b, raised, changed, rollbackOk) ==
  /\ last = NoLast
  /\ BusTotal(b) <= MaxLive
  /\ sw' = [lock_release(p) EXCEPT !.pc[t] = "idle", !.loc[t] = NoSwitch,
                                   !.committed = s.provider_uuid]
  /\ sub' = s
  /\ bus' = b
  /\ last' = [op |-> "switch_provider_uuid", task |-> t,
              provider_uuid |-> p.loc[t].provider_uuid,
              raised |-> raised, changed |-> changed,
              entry |-> p.loc[t].entry,
              env |-> [unsubOk |-> p.loc[t].unsubOk, subOk |-> p.loc[t].subOk,
                       rollbackOk |-> rollbackOk]]

\* task t holds the lock p: it runs to its first await or to its return
SwitchEntered(t, p) ==
  LET u == p.loc[t].provider_uuid
      e == switch_enter(sub, u)
      p1 == [p EXCEPT !.loc[t] =
               [at |-> e.at, provider_uuid |-> u,
                previous_provider_uuid |-> sub.provider_uuid,
                previous_subscription |-> sub.subscription,
                entry |-> [sub |-> sub, bus |-> bus],
                unsubOk |-> TRUE, subOk |-> TRUE]]
  IN IF e.at \in {"raised", "returned"}
     THEN SwitchDone(t, p1, e.sub, bus, e.at = "raised", FALSE, TRUE)
     ELSE /\ sw' = p1
          /\ sub' = e.sub
          /\ UNCHANGED <<bus, last>>

\* a task calls switch_provider_uuid(u) with a non-empty u (an empty one
\* raises before the lock is requested): the lock is requested
SwitchCall ==
  \E t \in Switchers, u \in Providers :
    /\ last = NoLast
    /\ sub.handler
    /\ sw.pc[t] = "idle"
    /\ LET p == lock_acquire([sw EXCEPT !.loc[t] = [at |-> "lock",
                                                    provider_uuid |-> u]], t)
       IN IF p.pc[t] = "publishing"
          THEN SwitchEntered(t, p)
          ELSE /\ sw' = p
               /\ UNCHANGED <<sub, bus, last>>
    /\ UNCHANGED <<hardware, cfg, file, rt, pin, hp, hb, faults, be, pub,
                   provider_uuid, ht>>

\* the event loop runs the waiter that a release of the switch lock woke
SwitchGranted ==
  /\ last = NoLast
  /\ sw.woken
  /\ SwitchEntered(Head(sw.waiters), lock_granted(sw))
  /\ UNCHANGED <<hardware, cfg, file, rt, pin, hp, hb, faults, be, pub,
                 provider_uuid, ht>>

\* the unsubscribe of the previous handle returned or raised (a failure is
\* logged): both fields are cleared and the new subject is subscribed
SwitchUnsubscribed ==
  \E t \in Switchers, unsubOk \in BOOLEAN :
    /\ last = NoLast
    /\ sw.pc[t] = "publishing"
    /\ sw.loc[t].at = "unsubscribe"
    /\ bus' = unsubscribe_previous(
                [sub EXCEPT !.subscription = sw.loc[t].previous_subscription],
                bus, unsubOk)
    /\ sub' = clear_subscription(sub)
    /\ sw' = [sw EXCEPT !.loc[t].at = "subscribe", !.loc[t].unsubOk = unsubOk]
    /\ UNCHANGED <<hardware, cfg, file, rt, pin, last, hp, hb, faults, be, pub,
                   provider_uuid, ht>>

\* the subscribe to the new subject returned or raised: the call returns
\* changed=True, or goes on to re-subscribe the previous subject, or raises
\* at once when there was no previous provider
SwitchSubscribed ==
  \E t \in Switchers, subOk \in BOOLEAN :
    LET loc == sw.loc[t]
        u == loc.provider_uuid
        p == [sw EXCEPT !.loc[t].subOk = subOk]
    IN /\ last = NoLast
       /\ sw.pc[t] = "publishing"
       /\ loc.at = "subscribe"
       /\ IF subOk
          THEN SwitchDone(t, p, [sub EXCEPT !.subscription = Some(u),
                                            !.provider_uuid = Some(u),
                                            !.lost = FALSE],
                          bus_subscribe(bus, u), FALSE, TRUE, TRUE)
          ELSE IF IsNone(loc.previous_provider_uuid)
          THEN SwitchDone(t, p,
                          rollback_subscribe(sub, bus, None, TRUE).sub, bus,
                          TRUE, FALSE, TRUE)
          ELSE /\ sw' = [p EXCEPT !.loc[t].at = "rollback"]
               /\ UNCHANGED <<sub, bus, last>>
       /\ UNCHANGED <<hardware, cfg, file, rt, pin, hp, hb, faults, be, pub,
                      provider_uuid, ht>>

\* the rollback subscribe to the previous subject returned or raised: the
\* call raises the error of the failed subscribe
SwitchRolledBack ==
  \E t \in Switchers, rollbackOk \in BOOLEAN :
    /\ sw.pc[t] = "publishing"
    /\ sw.loc[t].at = "rollback"
    /\ LET r == rollback_subscribe(sub, bus, sw.loc[t].previous_provider_uuid,
                                   rollbackOk)
       IN SwitchDone(t, sw, r.sub, r.bus, TRUE, FALSE, rollbackOk)
    /\ UNCHANGED <<hardware, cfg, file, rt, pin, hp, hb, faults, be, pub,
                   provider_uuid, ht>>

\* concurrent switch_provider_uuid calls after setup_nats
NextSwitch ==
  \/ SetupNats
  \/ SwitchCall
  \/ SwitchGranted
  \/ SwitchUnsubscribed
  \/ SwitchSubscribed
  \/ SwitchRolledBack
  \/ HandlerReturns

SpecSwitch == Init /\ [][NextSwitch]_vars

\* a message arrives on the command subject and nats_event_handler runs to
\* its end; the operation it runs, if any, ends with the outcome drawn here
CommandReceived ==
  \E msg \in CommandMessages :
    \E outcome \in OperationOutcomes(msg.event_type) \cup
                     {[kind |-> "raised", ok |-> FALSE]} :
      /\ last = NoLast
      /\ last' = [op |-> "message", msg |-> msg, outcome |-> outcome,
                  acks |-> nats_event_handler(msg, outcome)]
      /\ UNCHANGED <<hardware, cfg, file, rt, pin, hp, hb, faults, sub, bus, be,
                     pub, provider_uuid, sw, ht>>

\* the command handler on its own
NextAck ==
  \/ CommandReceived
  \/ HandlerReturns

SpecAck == Init /\ [][NextAck]_vars

\* the lifecycle and manual commands sent to overlapping handlers, by
\* event and device_number: each slot is created as a MANUAL device switched
\* on, turned into an AUTO device and deleted, and slot 1 is commanded on
\* and off
OverlapCommands ==
  {[op |-> o, n |-> n, is_on |-> TRUE] :
     o \in {"create", "update", "delete"}, n \in DeviceNumbers}
  \cup {[op |-> "command", n |-> 1, is_on |-> x] : x \in BOOLEAN}

\* EventService.handle_event for the payload of such a command, with disk
\* and pin writes that succeed
handle_event(w, cmd) ==
  LET own == OwnIdentity(cmd.n)
  IN CASE cmd.op = "create" ->
            create_device(w, [device_number |-> cmd.n,
                              device_id |-> own.device_id,
                              device_uuid |-> own.device_uuid, mode |-> MANUAL,
                              threshold_value |-> None, is_on |-> cmd.is_on],
                          TRUE)
       [] cmd.op = "update" ->
            update_device(w, [device_number |-> cmd.n,
                              device_id |-> own.device_id,
                              device_uuid |-> None, mode |-> AUTO,
                              threshold_set |-> TRUE,
                              threshold_value |-> Some(Threshold)],
                          TRUE, TRUE)
       [] cmd.op = "delete" -> delete_device(w, cmd.n, TRUE)
       [] cmd.op = "command" ->
            set_manual_state(w, cmd.n, cmd.is_on, TRUE, TRUE)

\* the bus client creates the task that will handle a command message
HandlerScheduled ==
  \E t \in Handlers, cmd \in OverlapCommands :
    /\ last = NoLast
    /\ ht[t].pc = "idle"
    /\ ht' = [ht EXCEPT ![t] = [pc |-> "scheduled", cmd |-> cmd, seen |-> cfg]]
    /\ UNCHANGED <<hardware, cfg, file, rt, pin, last, hp, hb, faults, sub, bus,
                   be, pub, provider_uuid, sw>>

\* the task runs: nats_event_handler parses the message and the operation
\* runs from its load to its reload, up to the await of the ack publish
HandlerRuns ==
  \E t \in Handlers :
    /\ last = NoLast
    /\ ht[t].pc = "scheduled"
    /\ LET w == [World EXCEPT !.cfg = loaded_config(ht[t].seen, cfg)]
           r == handle_event(w, ht[t].cmd)
       IN /\ SetWorld(r.w)
          /\ last' = [op |-> "handled", task |-> t, cmd |-> ht[t].cmd,
                      ok |-> r.ok, seen |-> ht[t].seen, before |-> World]
    /\ ht' = [ht EXCEPT ![t] = [pc |-> "acking"]]
    /\ UNCHANGED <<hardware, hp, hb, faults, sub, bus, be, pub, provider_uuid,
                   sw>>

\* the publish of the acknowledgement returned: the task ends
HandlerAcked ==
  \E t \in Handlers :
    /\ ht[t].pc = "acking"
    /\ ht' = [ht EXCEPT ![t] = [pc |-> "idle"]]
    /\ UNCHANGED <<hardware, cfg, file, rt, pin, last, hp, hb, faults, sub, bus,
                   be, pub, provider_uuid, sw>>

\* lifecycle and manual commands in overlapping handler tasks
NextOverlap ==
  \/ HandlerScheduled
  \/ HandlerRuns
  \/ HandlerAcked
  \/ HandlerReturns

\* an agent without devices whose disk and pin writes all succeed
InitOverlap == InitReliable /\ file = << >>

SpecOverlap == InitOverlap /\ [][NextOverlap]_vars

\* an event queued by an earlier run of the agent
LeftoverEvent == EventLine(1, Some(OwnIdentity(1).device_uuid), 1)
\* the queue file an adapter may find when it is constructed
LeftoverQueues ==
  {<< >>, <<MalformedLine>>, <<IncompleteLine>>, <<BlankLine>>,
   <<MalformedLine, LeftoverEvent>>, <<IncompleteLine, LeftoverEvent>>}

\* the agent bootstrapped with at most one device, and a backend adapter
InitBackend ==
  /\ InitDevices
  /\ hardware = HardwareFull
  /\ \A n \in DOMAIN file : n = 1 /\ file[n].mode = SCHEDULE
  /\ InitProvider
  /\ \E q \in LeftoverQueues :
       be = [NewBackend(q) EXCEPT
               !.submitted = Cardinality({i \in DOMAIN q : q[i].kind = "event"})]

\* a caller reports an event of device n, with the device's uuid or without
LogDeviceEvent ==
  \E n \in DeviceNumbers, with_uuid \in BOOLEAN,
     postOk \in [1..(Len(be.queue) + 1) -> BOOLEAN] :
    /\ last = NoLast
    /\ be.submitted < MaxEvents
    /\ LET device_uuid ==
             IF with_uuid
             THEN Some(OwnIdentity(n).device_uuid)
             ELSE None
           r == log_device_event(rt, be, device_uuid, n, postOk)
       IN /\ be' = r.b
          /\ last' = [op |-> "log",
                      payload |-> EventLine(be.submitted + 1, device_uuid, n),
                      posts |-> r.posts, before |-> be, postOk |-> postOk]
    /\ UNCHANGED <<hardware, cfg, file, rt, pin, hp, hb, faults, sub, bus, pub,
                 provider_uuid, sw, ht>>

\* the backend adapter on its own
NextBackend ==
  \/ LogDeviceEvent
  \/ HandlerReturns

SpecBackend == InitBackend /\ [][NextBackend]_vars

(***************************************************************************)
(* Properties of the automatic control and of the manual command           *)
(***************************************************************************)
is_on(n) == read_is_on_by_number(rt, pin, n)
AutoDevices == {n \in DOMAIN rt : rt[n].mode = AUTO}
HandlePowerDone == hp.pc = "done"
CommandReturned == last.op = "command" /\ last.n \in DOMAIN rt

\* C1: when handle_power with an absent reading completes, every device in
\* AUTO mode in the runtime table was written by the call, and each one
\* whose pin write did not fail is OFF, whatever it was before the call and
\* whatever handlers ran at the suspension points of the call.
C1_AbsentReadingForcesAutoOff ==
  (HandlePowerDone /\ IsNone(hp.value)) =>
    \A n \in AutoDevices :
      /\ n \in hp.acc.written \cup hp.acc.failed
      /\ n \notin hp.acc.failed => ~is_on(n)

\* two AUTO devices that were ON before the absent reading have been
\* written and are OFF
C1_Witness ==
  /\ HandlePowerDone /\ IsNone(hp.value)
  /\ AutoDevices = DeviceNumbers
  /\ hp.on_before = DeviceNumbers
  /\ hp.acc.written = DeviceNumbers
  /\ \A n \in DeviceNumbers : ~is_on(n)

\* C2: when handle_power(v) with a present reading completes, no other
\* handler having run at its suspension points and no pin write having
\* failed, every AUTO device with a threshold t is ON iff v >= t.
C2_ThresholdDecision ==
  (HandlePowerDone /\ ~IsNone(hp.value) /\ ~hp.interleaved /\ hp.acc.failed = {}) =>
    \A n \in AutoDevices :
      ~IsNone(rt[n].threshold_value) =>
        (is_on(n) <=> Val(hp.value) >= Val(rt[n].threshold_value))

\* a reading equal to the threshold has turned an AUTO device from OFF to ON
C2_Witness ==
  /\ HandlePowerDone /\ ~hp.interleaved /\ hp.acc.failed = {}
  /\ hp.value = Some(Threshold)
  /\ \E n \in AutoDevices :
       /\ rt[n].threshold_value = Some(Threshold)
       /\ n \in hp.acc.written \ hp.on_before
       /\ is_on(n)

\* the only backend event of a manual command that changed device n to x
CommandEvents(n, x) == <<BackendEvent(n, ET_STATE, DEVICE_COMMAND, x)>>
\* the config file holds mode MANUAL and desired_state x for device n
PersistedManual(n, x) ==
  /\ n \in DOMAIN file
  /\ file[n].mode = MANUAL
  /\ file[n].desired_state = Some(x)

\* C3: set_manual_state(n, x) on a device of the runtime table whose
\* measured state differs from x, the pin write and the config write
\* succeeding: on return n measures x, the config file holds MANUAL and
\* desired_state x for n, exactly one DEVICE_COMMAND backend event was
\* emitted for n and one immediate heartbeat publish was scheduled.
C3_ManualCommandChangesState ==
  (CommandReturned /\ last.was_on # last.is_on /\ last.writeOk /\ last.saveOk) =>
    /\ last.ok
    /\ is_on(last.n) = last.is_on
    /\ PersistedManual(last.n, last.is_on)
    /\ last.events = CommandEvents(last.n, last.is_on)
    /\ last.hb = 1

\* a command turned an AUTO device that was OFF to ON
C3_Witness ==
  /\ CommandReturned /\ last.ok
  /\ ~last.was_on /\ last.is_on
  /\ is_on(last.n)
  /\ PersistedManual(last.n, TRUE)
  /\ last.events = CommandEvents(last.n, TRUE)
  /\ last.hb = 1

\* what set_manual_state does not do when the measured state equals x
NoWriteNoReport == last.writes = 0 /\ last.events = << >> /\ last.hb = 0

LoopIterated == last.op = "loop"

\* C8 (as stated): an iteration of the periodic loop invokes force_all_off
\* iff its publish failed and the previous periodic publish had not failed,
\* that is exactly once per run of consecutive failed periodic publishes.
C8_AsStated ==
  LoopIterated => (last.swept <=> (~last.ok /\ last.prev # "failed"))

\* C8 (amended): an iteration invokes force_all_off iff its publish failed
\* and the previous publish of the same run of the loop had not failed:
\* once per failure streak of one loop.  A loop started by start() after a
\* stop() has a cleared flag and sweeps on its first failed publish even
\* when the last publish of the stopped loop had failed.
C8_OncePerStreakOfOneLoop ==
  LoopIterated => (last.swept <=> (~last.ok /\ last.loop_prev # "failed"))

\* the second failed publish in a row of one loop did not sweep again
C8_Witness ==
  /\ LoopIterated /\ ~last.ok
  /\ last.loop_prev = "failed"
  /\ ~last.swept
  /\ hb.triggered

\* from the safety shutdown to the next successful periodic publish
SafetyShutdownInForce == hb.prev = "failed"

\* C9 (as stated): while the safety shutdown is in force no managed device
\* is ON (here even granted that no pin write ever failed).
C9_AsStated ==
  (SafetyShutdownInForce /\ faults = 0) => \A n \in DOMAIN rt : ~is_on(n)

(***************************************************************************)
(* Properties of the provider subscription service                         *)
(***************************************************************************)
\* a switch to a valid uuid ran past the no-op check: it tried to subscribe
SwitchTried ==
  /\ last.op = "switch"
  /\ last.provider_uuid \in Providers
  /\ last.before.handler
  /\ ~switch_is_noop(last.before, last.provider_uuid)
\* the same, from a service subscribed to another provider
SwitchedFromSubscribed ==
  /\ SwitchTried
  /\ ~IsNone(last.before.subscription)
  /\ ~IsNone(last.before.provider_uuid)
\* the service holds a live subscription to u and names u as its provider
SubscribedTo(u) ==
  /\ sub.subscription = Some(u)
  /\ sub.provider_uuid = Some(u)
  /\ bus[u] >= 1

\* C5: switch_provider_uuid(B) on a service subscribed to A, the subscribe
\* to B failing and the re-subscribe to A succeeding: the service ends
\* subscribed to A with provider uuid A, and the call raises.
C5_RollbackKeepsPrevious ==
  (SwitchedFromSubscribed /\ ~last.env.subOk /\ last.env.rollbackOk) =>
    /\ SubscribedTo(Val(last.before.provider_uuid))
    /\ last.raised
    /\ last.attempts = <<last.provider_uuid, Val(last.before.provider_uuid)>>

\* the switch from prov-a to prov-b failed and was rolled back to prov-a
C5_Witness ==
  /\ SwitchedFromSubscribed /\ ~last.env.subOk /\ last.env.rollbackOk
  /\ last.before.provider_uuid = Some("prov-a")
  /\ last.provider_uuid = "prov-b"
  /\ SubscribedTo("prov-a")
  /\ last.raised

\* C6: when the subscribe and the rollback re-subscribe both fail, the
\* service is left without subscription handle and without provider uuid and
\* the call raises; a later switch to any uuid, the previous one included,
\* is not a no-op: it subscribes afresh and, when that succeeds, returns
\* changed = true with the service subscribed to the new uuid.
C6_DoubleFailureThenFreshSubscribe ==
  /\ (SwitchedFromSubscribed /\ ~last.env.subOk /\ ~last.env.rollbackOk) =>
       /\ IsNone(sub.subscription)
       /\ IsNone(sub.provider_uuid)
       /\ sub.lost
       /\ last.raised
  /\ (last.op = "switch" /\ last.before.lost /\ last.provider_uuid \in Providers) =>
       /\ last.attempts # << >>
       /\ Head(last.attempts) = last.provider_uuid
       /\ last.env.subOk =>
            (~last.raised /\ last.changed /\ SubscribedTo(last.provider_uuid))

\* after a double failure a switch subscribed afresh
C6_Witness ==
  /\ last.op = "switch" /\ last.before.lost
  /\ IsNone(last.before.subscription)
  /\ last.changed /\ ~last.raised
  /\ SubscribedTo(last.provider_uuid)

\* C7 (as stated): at most one bus subscription created by the service has
\* not been successfully unsubscribed.
C7_AsStated == BusTotal(bus) <= 1

(***************************************************************************)
(* Properties of the backend adapter                                       *)
(***************************************************************************)
RECURSIVE EventIds(_)
\* the ids of the event lines of a queue, in queue order
EventIds(q) ==
  IF q = << >> THEN << >>
  ELSE (IF Head(q).kind = "event" THEN <<Head(q).id>> ELSE << >>)
         \o EventIds(Tail(q))
\* every event of the lines carries a device_uuid or names a runtime device
Deliverable(lines) ==
  \A i \in 1..Len(lines) :
    lines[i].kind = "event" => ~missing_device_uuid(rt, lines[i])
\* a log_device_event call during which the backend accepted every POST
LoggedWhileAccepting ==
  /\ last.op = "log"
  /\ \A i \in DOMAIN last.postOk : last.postOk[i]

\* C10: as long as every POST has failed, the events submitted so far are
\* all held in the offline queue in submission order; and when the backend
\* accepts every POST of a log_device_event call, the call delivers the
\* queued events in queue order, then the new event, and leaves the queue
\* empty (for events whose device_uuid is given or found in the table).
C10_QueuedInOrderThenDelivered ==
  /\ be.delivered = << >> =>
       EventIds(be.queue) = [i \in 1..be.submitted |-> i]
  /\ (LoggedWhileAccepting
        /\ Deliverable(Append(last.before.queue, last.payload))) =>
       /\ last.posts = Append(EventIds(last.before.queue), last.payload.id)
       /\ be.delivered = last.before.delivered \o last.posts
       /\ be.queue = << >>

\* E1, E2, E3 were queued in this order while every POST failed, and the
\* fourth call delivered E1, E2, E3 and then its own event
C10_Witness ==
  /\ LoggedWhileAccepting
  /\ EventIds(last.before.queue) = <<1, 2, 3>>
  /\ last.before.delivered = << >>
  /\ be.delivered = <<1, 2, 3, 4>>
  /\ be.queue = << >>

\* the ids of a sequence of lines
LineIds(lines) == [i \in 1..Len(lines) |-> lines[i].id]
\* the event lines of a queue that _prepare_request accepts, in queue order
Sendable(lines) ==
  SelectSeq(lines, LAMBDA l : l.kind = "event" /\ ~missing_device_uuid(rt, l))
\* a log_device_event call has returned
Logged == last.op = "log"

\* C11 (as stated): no event is delivered before an earlier-submitted event
\* that is still undelivered, i.e. the k-th delivery is that of the k-th
\* submitted event (for events that carry or resolve a device_uuid).
C11_AsStated ==
  Deliverable(be.queue) =>
    \A k \in 1..Len(be.delivered) : be.delivered[k] = k

\* the lines of a queue that are not JSON or lack event_name / event_type
Invalid(lines) ==
  SelectSeq(lines, LAMBDA l : l.kind \in {"malformed", "incomplete"})

\* C12 (as stated): a flush appends every queued line that is not valid
\* JSON (a blank line included) or lacks event_name / event_type to the
\* quarantine file, drops it from the queue and never POSTs it, and still
\* POSTs the valid lines after it.
C12_AsStated ==
  Logged =>
    /\ be.quarantine = last.before.quarantine
                         \o SelectSeq(last.before.queue,
                                      LAMBDA l : l.kind # "event")
    /\ \A i \in 1..Len(be.queue) : be.queue[i].kind = "event"
    /\ last.posts = LineIds(Sendable(Append(last.before.queue, last.payload)))

\* C12 (amended): the same for the lines that are not blank; a line of
\* white space only is dropped from the queue without being quarantined.
C12_InvalidLinesQuarantined ==
  Logged =>
    /\ be.quarantine = last.before.quarantine \o Invalid(last.before.queue)
    /\ \A i \in 1..Len(be.queue) : be.queue[i].kind = "event"
    /\ last.posts = LineIds(Sendable(Append(last.before.queue, last.payload)))

\* the flush found a line that is not JSON followed by a queued event: the
\* line went to quarantine and the event behind it was delivered
C12_Witness ==
  /\ Logged
  /\ last.before.queue = <<MalformedLine, LeftoverEvent>>
  /\ be.quarantine = <<MalformedLine>>
  /\ last.posts # << >> /\ last.posts[1] = LeftoverEvent.id
  /\ be.delivered # << >> /\ be.delivered[1] = LeftoverEvent.id

\* C13: when log_device_event returns, the submitted event is either
\* delivered (and not queued) or the last line of the offline queue (and
\* not delivered).
C13_DeliveredOrQueuedLast ==
  Logged =>
    LET id == last.payload.id
        delivered == \E k \in 1..Len(be.delivered) : be.delivered[k] = id
        queued == \E k \in 1..Len(be.queue) : be.queue[k] = last.payload
    IN \/ delivered /\ ~queued
       \/ /\ ~delivered
          /\ be.queue # << >>
          /\ be.queue[Len(be.queue)] = last.payload

\* the POST of the new event failed while an older event stayed queued: the
\* new event is the last line of the queue
C13_Witness ==
  /\ Logged
  /\ ~last.postOk[Len(last.before.queue) + 1]
  /\ Len(be.queue) >= 2
  /\ be.queue[Len(be.queue)] = last.payload
  /\ be.queue[1].kind = "event"

(***************************************************************************)
(* Properties of the device lifecycle                                      *)
(***************************************************************************)
\* a create_device, update_device or delete_device call has returned
LifecycleReturned == last.op \in {"create", "update", "delete"}
\* the config cache, the config file, the runtime table and the pins are as
\* they were when the call that returned was entered
WorldUnchanged ==
  /\ cfg = last.before.cfg
  /\ file = last.before.file
  /\ rt = last.before.rt
  /\ pin = last.before.pin
\* the identifiers of payload p collide with a device configured in
\* another slot of devices
Collides(p, devices) ==
  \E m \in DOMAIN devices \ {p.device_number} :
    \/ devices[m].device_id = p.device_id
    \/ devices[m].device_uuid = p.device_uuid

\* C14: create_device returns false when the number is outside
\* 1..device_max, when the config holds device_max devices or when the slot
\* is taken, and then the config is as before; a creation at a free number
\* of a table with room (valid mode, identifiers not in use, slot wired,
\* disk write succeeding) returns true and adds the entry.
C14_CreateRejections ==
  last.op = "create" =>
    LET n == last.n
        b == last.before.cfg
        refused == \/ n \notin 1..DeviceMax
                   \/ Cardinality(DOMAIN b) >= DeviceMax
                   \/ n \in DOMAIN b
    IN /\ refused => (~last.ok /\ cfg = b /\ file = last.before.file)
       /\ (/\ ~refused
           /\ last.p.mode \in DeviceMode
           /\ ~Collides(last.p, b)
           /\ n \in DOMAIN hardware
           /\ last.fault = 0) =>
            /\ last.ok
            /\ DOMAIN cfg = DOMAIN b \cup {n}
            /\ cfg[n].device_uuid = last.p.device_uuid
            /\ DOMAIN file = DOMAIN cfg

\* the table holds device_max devices, all of them loaded, and one more
\* creation was refused
C14_Witness ==
  /\ last.op = "create"
  /\ ~last.ok
  /\ Cardinality(DOMAIN last.before.cfg) = DeviceMax
  /\ DOMAIN cfg = DeviceNumbers
  /\ DOMAIN rt = DeviceNumbers

\* a lifecycle request or manual command was refused although none of its
\* disk or pin writes failed: it was rejected by a check
Rejected ==
  /\ last.op \in {"create", "update", "delete", "command"}
  /\ ~last.ok
  /\ IF last.op = "command" THEN last.writeOk /\ last.saveOk
     ELSE last.fault = 0

\* C15 (as stated): a request rejected for a bad device number, an invalid
\* mode, a duplicate device_id or device_uuid, a missing hardware entry or
\* an unknown device changes nothing: config file, cached config, runtime
\* table and pins are as before, and nothing is emitted.
C15_AsStated ==
  Rejected =>
    /\ WorldUnchanged
    /\ last.events = << >>
    /\ last.hb = 0
    /\ last.writes = 0

\* a device map as the domain config may hold it: at most device_max
\* entries, keys in 1..device_max and equal to device_number, device_uuid
\* and device_id used once
ValidDeviceMap(devices) ==
  /\ Cardinality(DOMAIN devices) <= DeviceMax
  /\ DOMAIN devices \subseteq 1..DeviceMax
  /\ \A n \in DOMAIN devices : devices[n].device_number = n
  /\ \A n, m \in DOMAIN devices :
       n # m => /\ devices[n].device_uuid # devices[m].device_uuid
                /\ devices[n].device_id # devices[m].device_id

\* C16: whatever create_device, update_device, delete_device,
\* set_manual_state and handle_power calls were made, the device map of the
\* domain config (the one the store returns and the one on disk) is valid.
C16_DeviceMapValid == ValidDeviceMap(cfg) /\ ValidDeviceMap(file)

\* an update that would give a device the device_id or device_uuid of the
\* device in another slot of a full table was refused
C16_Witness ==
  /\ last.op = "update"
  /\ ~last.ok
  /\ last.n \in DOMAIN last.before.cfg
  /\ Cardinality(DOMAIN last.before.cfg) = DeviceMax
  /\ \E m \in DOMAIN last.before.cfg \ {last.n} :
       last.before.cfg[m].device_id = last.p.device_id
  /\ cfg = last.before.cfg

\* the persist step of a lifecycle call was reached and its disk write failed
PersistWriteFailed ==
  /\ LifecycleReturned
  /\ last.fault = 1
  /\ CASE last.op = "create" ->
             /\ ~create_device_rejects(last.before, last.p)
             /\ ~Collides(last.p, last.before.cfg)
             /\ last.n \in DOMAIN hardware
       [] last.op = "update" ->
             /\ last.n \in DOMAIN last.before.cfg
             /\ last.p.mode \in DeviceMode
             /\ ~Collides([device_number |-> last.n,
                            device_id |-> last.p.device_id,
                            device_uuid |->
                              IF IsNone(last.p.device_uuid)
                              THEN last.before.cfg[last.n].device_uuid
                              ELSE Val(last.p.device_uuid)],
                           last.before.cfg)
             /\ DOMAIN last.before.cfg \subseteq DOMAIN hardware
       [] last.op = "delete" ->
             /\ last.n \in DOMAIN last.before.cfg
             /\ DOMAIN last.before.cfg \ {last.n} \subseteq DOMAIN hardware

\* C17 (as stated): when the disk write of the persist step fails, the call
\* returns failure, the runtime table is not reloaded, and the config the
\* store returns on the next load is the one from before the call.
C17_AsStated ==
  PersistWriteFailed =>
    /\ ~last.ok
    /\ rt = last.before.rt /\ pin = last.before.pin
    /\ file = last.before.file
    /\ cfg = last.before.cfg

\* every device of the map that is not MANUAL has no desired_state
NoDesiredStateUnlessManual(devices) ==
  \A n \in DOMAIN devices :
    devices[n].mode # MANUAL => IsNone(devices[n].desired_state)

\* C18: whatever create_device, update_device, delete_device,
\* set_manual_state and handle_power calls were made, every device of the
\* persisted domain config whose mode is not MANUAL has desired_state null.
C18_NonManualHasNoDesiredState ==
  NoDesiredStateUnlessManual(file) /\ NoDesiredStateUnlessManual(cfg)

\* a MANUAL device that had a desired_state was updated to AUTO, and its
\* desired_state is now null on disk
C18_Witness ==
  /\ last.op = "update" /\ last.ok
  /\ last.before.file[last.n].mode = MANUAL
  /\ ~IsNone(last.before.file[last.n].desired_state)
  /\ file[last.n].mode = AUTO
  /\ IsNone(file[last.n].desired_state)

\* a successful call moved device last.n into MANUAL mode
EnteredManual ==
  /\ last.op \in {"update", "command"}
  /\ last.ok
  /\ last.before.cfg[last.n].mode # MANUAL
  /\ cfg[last.n].mode = MANUAL

\* C19 (as stated): after an operation that moves a device into MANUAL
\* mode, the persisted desired_state of the device is non-null and equals
\* its measured state.
C19_AsStated ==
  EnteredManual =>
    /\ file[last.n].desired_state = Some(is_on(last.n))
    /\ cfg[last.n].desired_state = Some(is_on(last.n))

\* the state of device n in the snapshot taken before the reload: None when
\* the device was not in the table
SnapshotState(n) ==
  IF n \in DOMAIN last.before.rt
  THEN Some(read_is_on_by_number(last.before.rt, last.before.pin, n))
  ELSE None
\* the events of the call that are about device n
EventsOf(n) == SelectSeq(last.events, LAMBDA e : e.device_number = n)

\* C20: after a successful create_device, update_device or delete_device,
\* a CONFIG_APPLY state event and a heartbeat are produced for a device of
\* the reloaded table iff it was in the snapshot and its state changed, or
\* it was not in the snapshot and is ON; nothing else is produced.
C20_ReloadReportsChanges ==
  (LifecycleReturned /\ last.ok) =>
    /\ \A n \in DOMAIN rt :
         LET reported == IF IsNone(SnapshotState(n)) THEN is_on(n)
                         ELSE Val(SnapshotState(n)) # is_on(n)
         IN EventsOf(n) =
              IF reported
              THEN <<BackendEvent(n, ET_STATE, CONFIG_APPLY, is_on(n))>>
              ELSE << >>
    /\ \A i \in 1..Len(last.events) : last.events[i].device_number \in DOMAIN rt
    /\ last.hb = Len(last.events)

\* a creation of a MANUAL device that is ON was reported while another
\* device, OFF before and after, was not; and a device that the reload
\* turned OFF was reported
C20_Witness ==
  /\ LifecycleReturned /\ last.ok
  /\ \E n \in DOMAIN rt :
       /\ IsNone(SnapshotState(n)) /\ is_on(n) /\ Len(EventsOf(n)) = 1
  /\ \E n \in DOMAIN rt :
       /\ SnapshotState(n) = Some(TRUE) /\ ~is_on(n) /\ Len(EventsOf(n)) = 1

(***************************************************************************)
(* Properties of the reporting of state changes                            *)
(***************************************************************************)
\* events holds a backend event of device n that carries state x
ReportedState(events, n, x) ==
  \E i \in 1..Len(events) :
    /\ events[i].device_number = n
    /\ events[i].is_on = x

\* C21 (as stated): every change of a managed device's ON/OFF state made by
\* a manual command or by handle_power is followed by a backend event for
\* that device carrying the new state, also when the persist step after the
\* pin write fails.
C21_AsStated ==
  /\ (CommandReturned /\ is_on(last.n) # last.was_on) =>
       ReportedState(last.events, last.n, is_on(last.n))
  /\ (HandlePowerDone /\ ~hp.interleaved) =>
       \A n \in DOMAIN rt :
         is_on(n) # (n \in hp.on_before) =>
           ReportedState(hp.acc.events, n, is_on(n))

(***************************************************************************)
(* Properties of the domain config store                                   *)
(***************************************************************************)
\* a lifecycle call or manual command returned success: its config writes
\* were made, so the config file is save() of the cached config
SavedByCall ==
  /\ last.op \in {"create", "update", "delete", "command"}
  /\ last.ok

\* C22 (as stated): for every config the lifecycle operations produce,
\* loading the file that save() wrote reproduces the config in every field
\* (is_on is not part of the loaded config).
C22_AsStated ==
  SavedByCall => normalize_devices(file) = cfg

(***************************************************************************)
(* Properties of the runtime table                                         *)
(***************************************************************************)
\* a lifecycle call, a manual command or a handle_power call has completed
OperationCompleted ==
  \/ last.op \in {"create", "update", "delete", "command"}
  \/ HandlePowerDone

\* C28 (as stated): after every completed create_device, update_device,
\* delete_device, set_manual_state or handle_power, succeeded or failed,
\* the runtime table holds the device numbers of the persisted domain
\* config and every runtime device has its persisted mode.
C28_AsStated ==
  OperationCompleted =>
    /\ DOMAIN rt = DOMAIN file
    /\ \A n \in DOMAIN rt : rt[n].mode = file[n].mode

(***************************************************************************)
(* Properties of handle_power: what is left alone                          *)
(***************************************************************************)
\* the backend events of the handle_power call that are about device n
HpEventsOf(n) == SelectSeq(hp.acc.events, LAMBDA e : e.device_number = n)

\* C27 (as stated): on an absent reading the persist step, the
\* POWER_MISSING report and the heartbeat happen only for the AUTO devices
\* that were ON before the reading; an AUTO device that was already OFF
\* produces no persist, no backend event and no heartbeat (here even granted
\* that no pin write failed).
C27_AsStated ==
  (HandlePowerDone /\ IsNone(hp.value) /\ ~hp.interleaved
     /\ hp.acc.failed = {}) =>
    /\ \A n \in AutoDevices \ hp.on_before :
         /\ n \notin hp.acc.written
         /\ HpEventsOf(n) = << >>
    /\ hp.acc.hb <= Cardinality(AutoDevices \cap hp.on_before)

\* a step of handle_power was taken: the call was entered, or resumed after
\* the awaited publishes
HpStepTaken ==
  \/ hp.pc = "idle" /\ hp'.pc \in {"await", "done"}
  \/ hp.pc = "await" /\ (hp'.pc = "done" \/ hp'.todo # hp.todo)
\* the devices of auto_devices the step starts from
HpStepDevices ==
  IF hp.pc = "idle" THEN get_auto_power_devices(rt) ELSE hp.todo
\* what the call had done when the step began
HpStepAcc ==
  IF hp.pc = "idle" THEN HpAcc(<< >>, 0, {}, {}) ELSE hp.acc
\* the step left device n alone: no pin write, no change of its runtime or
\* config entry, no set_state_by_number call, no backend event
HpStepLeftAlone(n) ==
  /\ n \in DOMAIN rt =>
       /\ n \in DOMAIN rt'
       /\ rt'[n] = rt[n]
       /\ pin'[rt[n].gpio] = pin[rt[n].gpio]
  /\ n \in DOMAIN cfg => (n \in DOMAIN cfg' /\ cfg'[n] = cfg[n])
  /\ n \notin (hp'.acc.written \cup hp'.acc.failed)
                 \ (HpStepAcc.written \cup HpStepAcc.failed)
  /\ SelectSeq(hp'.acc.events, LAMBDA e : e.device_number = n)
       = SelectSeq(HpStepAcc.events, LAMBDA e : e.device_number = n)
\* one heartbeat is awaited per device the step wrote, and no other
HpStepHeartbeats ==
  hp'.acc.hb = HpStepAcc.hb
                 + Cardinality(hp'.acc.written \ HpStepAcc.written)
\* device d of auto_devices has a threshold and measures what reading v asks
AtDecision(d, v) ==
  /\ ~IsNone(d.threshold_value)
  /\ read_is_on_by_number(rt, pin, d.device_number)
       = should_turn_on(v, Val(d.threshold_value))

\* C25: a step of handle_power(v) with a present reading leaves alone every
\* AUTO device whose measured state already equals v >= threshold (no pin
\* write, no persist, no backend event, no heartbeat); and a handle_power(v)
\* entered when every AUTO device with a threshold is in that state, as it
\* is after a first handle_power(v), returns at once and changes nothing.
C25_UnchangedDeviceSkipped ==
  [][(HpStepTaken /\ ~IsNone(hp'.value)) =>
       LET v == Val(hp'.value)
           ds == HpStepDevices
       IN /\ \A i \in 1..Len(ds) :
               AtDecision(ds[i], v) => HpStepLeftAlone(ds[i].device_number)
          /\ HpStepHeartbeats
          /\ (hp.pc = "idle"
                /\ \A i \in 1..Len(ds) :
                     IsNone(ds[i].threshold_value) \/ AtDecision(ds[i], v)) =>
               /\ hp'.pc = "done"
               /\ hp'.acc = HpAcc(<< >>, 0, {}, {})
               /\ UNCHANGED <<cfg, file, rt, pin>>]_vars

\* a reading at the threshold found an AUTO device already ON and a second
\* AUTO device OFF: the call wrote the second one only
C25_Witness ==
  /\ HandlePowerDone /\ ~hp.interleaved
  /\ hp.value = Some(Threshold)
  /\ AutoDevices = DeviceNumbers
  /\ \A n \in DeviceNumbers : rt[n].threshold_value = Some(Threshold) /\ is_on(n)
  /\ Cardinality(hp.on_before) = 1
  /\ hp.acc.written = DeviceNumbers \ hp.on_before
  /\ \A n \in hp.on_before : HpEventsOf(n) = << >>
  /\ hp.acc.hb = 1

\* C26: a step of handle_power with a present reading leaves alone every
\* AUTO device that has no threshold, whatever the reading and whatever
\* the device's state: no pin write, no persist, no backend event.
C26_NoThresholdSkipped ==
  [][(HpStepTaken /\ ~IsNone(hp'.value)) =>
       LET ds == HpStepDevices
       IN \A i \in 1..Len(ds) :
            IsNone(ds[i].threshold_value) =>
              HpStepLeftAlone(ds[i].device_number)]_vars

\* readings above the threshold were handled while an AUTO device without
\* threshold stayed untouched beside an AUTO device that was turned ON
C26_Witness ==
  /\ HandlePowerDone /\ ~hp.interleaved
  /\ hp.value = Some(Threshold + 1)
  /\ AutoDevices = DeviceNumbers
  /\ \E n \in DeviceNumbers :
       /\ IsNone(rt[n].threshold_value)
       /\ ~is_on(n)
       /\ n \notin hp.acc.written \cup hp.acc.failed
       /\ HpEventsOf(n) = << >>
  /\ \E n \in hp.acc.written : is_on(n)

PinLevels == [Gpios -> {"LOW", "HIGH"}]

\* main.bootstrap_gpio run on pins at the levels p: load, merge, load_devices
bootstrap_gpio(p) ==
  load_devices([cfg |-> cfg, file |-> file, rt |-> << >>, pin |-> p],
               merge_configs(cfg, hardware))

\* in w, whose table was loaded from the list L: the table holds L, a MANUAL
\* device with a desired_state reads that state, every other device reads OFF
LoadedFrom(w, L) ==
  /\ w.rt = L
  /\ \A n \in DOMAIN L :
       read_is_on_by_number(w.rt, w.pin, n)
         = (L[n].mode = MANUAL /\ L[n].desired_state = Some(TRUE))

\* a second load_devices(L) leaves the table and every pin of w as they are
LoadRepeatable(w, L) ==
  LET again == load_devices(w, L)
  IN again.rt = w.rt /\ again.pin = w.pin

\* a lifecycle call returned after _persist_candidate_config reloaded the table
Reloaded == LifecycleReturned /\ last.ok

CreatedAuto ==
  /\ last.op = "create" /\ last.ok
  /\ last.p.mode = AUTO /\ ~IsNone(last.p.threshold_value)

\* the AUTO_TRIGGER events of the handle_power call that are about device n
AutoTriggerEvents(n) ==
  SelectSeq(HpEventsOf(n), LAMBDA e : e.event_type = ET_AUTO_TRIGGER)

\* C23: a device created by create_device in AUTO mode with threshold t is
\* OFF when create_device returns; when a handle_power(v) with v >= t that
\* found it OFF completes (no lifecycle call having run at its suspension
\* points, its pin write not having failed), the device is ON, exactly one
\* AUTO_TRIGGER backend event is about it, and one heartbeat publish was
\* awaited for each device the call switched.
C23_CreatedAutoDeviceFollowsReading ==
  /\ CreatedAuto => ~is_on(last.n)
  /\ (HandlePowerDone /\ ~IsNone(hp.value) /\ ~hp.interleaved) =>
       \A n \in AutoDevices \ (hp.on_before \cup hp.acc.failed) :
         (/\ ~IsNone(rt[n].threshold_value)
          /\ Val(hp.value) >= Val(rt[n].threshold_value))
           => /\ is_on(n)
              /\ Len(AutoTriggerEvents(n)) = 1
              /\ AutoTriggerEvents(n)[1]
                   = BackendEvent(n, ET_AUTO_TRIGGER, AUTO_TRIGGER, TRUE)
              /\ n \in hp.acc.written
              /\ hp.acc.hb = Cardinality(hp.acc.written)

\* the one created device went from OFF to ON on a reading at its threshold
C23_Witness ==
  /\ HandlePowerDone /\ ~hp.interleaved
  /\ hp.value = Some(Threshold)
  /\ hp.on_before = {}
  /\ \E n \in DeviceNumbers :
       /\ DOMAIN rt = {n}
       /\ rt[n].mode = AUTO /\ rt[n].threshold_value = Some(Threshold)
       /\ is_on(n)
       /\ hp.acc.hb = 1
       /\ Len(AutoTriggerEvents(n)) = 1

(***************************************************************************)
(* Heartbeat publishes are mutually exclusive and publish_now returns      *)
(***************************************************************************)
\* the tasks inside the block: building the payload and publishing it
Publishing == {t \in Publishers : pub.pc[t] = "publishing"}

OtherDevices == (DOMAIN rt \cap DOMAIN last.before.cfg) \ {last.n}

\* device m read ON when the call that returned was entered
WasOn(m) == read_is_on_by_number(last.before.rt, last.before.pin, m)

OutputEnergised(n) ==
  raw_to_is_on(last.before.rt[n].active_low, pin[last.before.rt[n].gpio])

\* C37 (as stated): after a successful delete_device(n) of a device whose
\* output was ON, the output of device n is OFF.
C37_AsStated ==
  (last.op = "delete" /\ last.ok /\ WasOn(last.n)) => ~OutputEnergised(last.n)

(***************************************************************************)
(* handle_power and a device that left AUTO mode while the call waited     *)
(***************************************************************************)
\* C32 (as stated): handle_power with a present reading writes the pin of
\* a device only if the device is in AUTO mode when the write is made,
\* whatever handlers ran at the suspension points of the call.
C32_AsStated ==
  [][(HpStepTaken /\ ~IsNone(hp'.value)) =>
       \A n \in hp'.acc.written \ HpStepAcc.written :
         n \in DOMAIN rt /\ rt[n].mode = AUTO]_vars

(***************************************************************************)
(* The periodic loop between stop() and start()                            *)
(***************************************************************************)
\* the _loop task finished an iteration in this step: its publish returned
\* or raised, and the safety sweep ran if it was due
LoopIterationEnds == last' # last /\ last'.op = "loop"

\* the _loop task moved on in this step: it requested the lock, was given
\* it, or left the block
LoopMoves == pub'.pc[LoopTask] # pub.pc[LoopTask] /\ pub'.pc[LoopTask] # "idle"

\* C33: while the service is stopped (after stop() returned and until
\* start() is called) the _loop task is neither waiting for the publish
\* lock nor publishing, no iteration of it ends and so no heartbeat of the
\* loop and no safety sweep happens; whatever the order of start and stop
\* calls, one _loop task exists while the service runs and none otherwise.
C33_StoppedLoopIsSilent ==
  /\ [](~hb.running => pub.pc[LoopTask] = "idle")
  /\ [](hb.tasks = IF hb.running THEN 1 ELSE 0)
  /\ [][(LoopIterationEnds \/ LoopMoves) => hb.running]_vars

\* stop() returned after the loop, which had a failed publish behind it,
\* was cancelled inside the publish block with a publish_now call waiting:
\* the lock went to the waiting call
C33_Witness ==
  /\ ~hb.running /\ hb.tasks = 0
  /\ hb.loop_prev = "failed"
  /\ pub.pc[LoopTask] = "idle"
  /\ pub.woken
  /\ \A c \in Callers : pub.pc[c] = "waiting"

\* the last operation was an update_provider_uuid call
ProviderUpdated == last # NoLast /\ last.op = "update_provider_uuid"

\* C38: whenever update_provider_uuid(u) returns ok=true, with changed true
\* or false, the subscription service is subscribed to provider u and the
\* provider_uuid of the domain config is u, also when an earlier switch left
\* the service without a subscription
C38_AsStated ==
  (ProviderUpdated /\ last.ok) =>
    SubscribedTo(last.provider_uuid) /\ provider_uuid.config = last.provider_uuid

\* C34: when persisting the new provider_uuid fails after the subscription
\* was switched, and the switch back does not raise, the call raises, the
\* service is subscribed to the previous provider and the store still
\* returns the previous provider_uuid
C34_AsStated ==
  (ProviderUpdated /\ last.persist_failed /\ ~last.back_raised) =>
    /\ last.raised
    /\ SubscribedTo(last.before.config.config)
    /\ provider_uuid.config = last.before.config.config

\* task t is inside the block of switch_provider_uuid
SwitchInside(t) == sw.pc[t] = "publishing"
\* a switch_provider_uuid call has just left the block
SwitchCompleted == last # NoLast /\ last.op = "switch_provider_uuid"
\* the same call run without any other task in between
SwitchAlone ==
  switch_provider_uuid(last.entry.sub, last.entry.bus, last.provider_uuid,
                       last.env.unsubOk, last.env.subOk, last.env.rollbackOk)

\* C31: concurrent switch_provider_uuid calls are serialized by the lock: at
\* most one call is between its entry and its exit, the previous provider a
\* call captured is the one the last completed start or switch left, and a
\* call that completes leaves the service and the bus as the same call
\* would, run alone, from the state it found on entry
C31_SwitchesSerialized ==
  /\ \A t1, t2 \in Switchers : SwitchInside(t1) /\ SwitchInside(t2) => t1 = t2
  /\ \A t \in Switchers :
       SwitchInside(t) => sw.loc[t].previous_provider_uuid = sw.committed
  /\ SwitchCompleted =>
       /\ sub = SwitchAlone.sub
       /\ bus = SwitchAlone.bus
       /\ last.raised = SwitchAlone.raised
       /\ last.changed = SwitchAlone.changed
C31_Witness ==
  /\ SwitchCompleted
  /\ last.raised
  /\ ~IsNone(sub.subscription)
  /\ sw.woken
  /\ \E t \in Switchers :
       sw.pc[t] = "waiting" /\ sw.loc[t].provider_uuid # last.provider_uuid

\* an event line without device_uuid whose device_number names no runtime
\* device
Unresolvable(l) ==
  l.kind = "event" /\ IsNone(l.device_uuid) /\ l.device_number \notin DOMAIN rt
\* the id is among the delivered ones
Delivered(id) == \E k \in 1..Len(be.delivered) : be.delivered[k] = id
\* the line is in the quarantine file
Quarantined(l) == \E k \in 1..Len(be.quarantine) : be.quarantine[k] = l

MessageHandled == last # NoLast /\ last.op = "message"
\* the message is a command other than a heartbeat control message and its
\* payload is an object that carries an ack_subject
AckExpected ==
  /\ last.msg.subject = "command"
  /\ last.msg.json = "object"
  /\ ~IsNone(last.msg.ack_subject)
\* the message reached its operation and the operation reported success
ReportedSuccess ==
  /\ last.msg.event_type \in EventTypes
  /\ last.msg.valid
  /\ last.outcome.kind # "raised"
  /\ last.outcome.ok

\* C35: for every command message that is no heartbeat control message and
\* carries an ack_subject exactly one acknowledgement is published, to that
\* ack_subject, and its ok field is true exactly when the operation reported
\* success: an invalid payload, an unknown event type, a rejected request
\* and an exception in the operation all give ok=false
C35_OneAckPerCommand ==
  (MessageHandled /\ AckExpected) =>
    /\ Len(last.acks) = 1
    /\ last.acks[1].ack_subject = Val(last.msg.ack_subject)
    /\ last.acks[1].ok = ReportedSuccess
\* the operation of a valid command raised: one ack with ok=false
C35_Witness ==
  /\ MessageHandled
  /\ AckExpected
  /\ last.msg.valid
  /\ last.msg.event_type = "DEVICE_CREATED"
  /\ last.outcome.kind = "raised"
  /\ Len(last.acks) = 1
  /\ ~last.acks[1].ok

\* a handler task has just run its lifecycle or manual command
CommandHandled == last # NoLast /\ last.op = "handled"

====
